---- MODULE Spec2Model ----
(***************************************************************************)
(* Model of the meeting orchestrator pipeline (orchestrator_agent.py), its *)
(* calendar tool (calender_tool.py) and the HTTP entry point (server.py).  *)
(* Time is counted in minutes from local midnight of "today" (day 0).      *)
(***************************************************************************)
EXTENDS Integers, Sequences, FiniteSets, TLC

\* ---------------------------------------------------------------- bounds
\* longest plan (number of actions) the generator returns
MaxActions == 2
\* most replies and remote calls of one run that may deviate from the expected
\* (a raised call, an unparseable reply, a reply of the other JSON shape)
MaxFaults == 1
\* longest plan in the runs checked for termination
MaxFairActions == 1
\* weekday of day 0 (0 = Monday), and the minute of day 0 at which the run happens
TodayWeekday == 0
NowMinute == 480

\* ------------------------------------------------------- program constants
MinutesPerDay == 1440
WorkStart == 540
WorkEnd == 1020
DefaultHour == 840
DaysAhead == 14
ContextDays == 30
FindSlotMax == 3
DateSlotMax == 10
FreshSlotMax == 1
DefaultDuration == 60

Max2(a, b) == IF a >= b THEN a ELSE b

Last(s) == s[Len(s)]

\* ------------------------------------------------------------ the graph
Nodes ==
  << "analyze_transcript", "research_agent", "fetch_calendar_context",
     "find_related_meetings", "plan_actions", "decision_agent",
     "risk_assessment_agent", "execute_actions", "generate_summary" >>

NodeSet == { Nodes[k] : k \in 1..Len(Nodes) }

\* a graph whose edge out of analyze_transcript bypasses research_agent
EdgeBypass ==
  [ n \in NodeSet \cup {"START"} |->
      CASE n = "START" -> "analyze_transcript"
        [] n = "analyze_transcript" -> "fetch_calendar_context"
        [] n = "research_agent" -> "fetch_calendar_context"
        [] n = "fetch_calendar_context" -> "find_related_meetings"
        [] n = "find_related_meetings" -> "plan_actions"
        [] n = "plan_actions" -> "decision_agent"
        [] n = "decision_agent" -> "risk_assessment_agent"
        [] n = "risk_assessment_agent" -> "execute_actions"
        [] n = "execute_actions" -> "generate_summary"
        [] n = "generate_summary" -> "END" ]

\* the edges added by create_orchestrator_graph, START and END included
Edge ==
  [ n \in NodeSet \cup {"START"} |->
      CASE n = "START" -> "analyze_transcript"
        [] n = "analyze_transcript" -> "research_agent"
        [] n = "research_agent" -> "fetch_calendar_context"
        [] n = "fetch_calendar_context" -> "find_related_meetings"
        [] n = "find_related_meetings" -> "plan_actions"
        [] n = "plan_actions" -> "decision_agent"
        [] n = "decision_agent" -> "risk_assessment_agent"
        [] n = "risk_assessment_agent" -> "execute_actions"
        [] n = "execute_actions" -> "generate_summary"
        [] n = "generate_summary" -> "END" ]

\* the agent name each stage passes to emit_workflow_event
AgentName ==
  [ n \in NodeSet |->
      CASE n = "analyze_transcript" -> "Transcript Analyzer"
        [] n = "research_agent" -> "Research & Entity Extraction"
        [] n = "fetch_calendar_context" -> "Calendar Context Fetch"
        [] n = "find_related_meetings" -> "Related Meetings Finder"
        [] n = "plan_actions" -> "Action Planner"
        [] n = "decision_agent" -> "Decision Analyzer"
        [] n = "risk_assessment_agent" -> "Risk Assessor"
        [] n = "execute_actions" -> "Action Executor"
        [] n = "generate_summary" -> "Summary Generator" ]

\* position of a node in the pipeline; END is one past the last stage
NodeIndex(n) ==
  IF n = "END" THEN Len(Nodes) + 1
  ELSE CHOOSE k \in 1..Len(Nodes) : Nodes[k] = n

\* ------------------------------------------------------- the calendar store
\* an event of the remote calendar: identifier and [start, end) in minutes
CalendarEvent(id, s, e) == [id |-> id, start |-> s, end |-> e]

\* calendars the run may find: empty, or day 0 fully booked and a meeting
\* on day 1 from 10:00 to 11:00
InitialCalendars ==
  { {},
    { CalendarEvent(1, WorkStart, WorkEnd),
      CalendarEvent(2, MinutesPerDay + 600, MinutesPerDay + 660) } }

\* events().list with timeMin = now and timeMax = now + days_ahead:
\* the events that end after timeMin and start before timeMax
fetch_events(cal, days_ahead, days_back) ==
  { e \in cal : e.end > NowMinute - days_back * MinutesPerDay
                /\ e.start < NowMinute + days_ahead * MinutesPerDay }

EventDate(e) == IF e.start >= 0 THEN e.start \div MinutesPerDay
                ELSE 0 - ((MinutesPerDay - 1 - e.start) \div MinutesPerDay)

RECURSIVE SortByStart(_)
SortByStart(S) ==
  IF S = {} THEN << >>
  ELSE LET m == CHOOSE x \in S :
                  \A y \in S : x.start < y.start
                               \/ (x.start = y.start /\ x.id <= y.id)
       IN << m >> \o SortByStart(S \ {m})

TimeSlot(s, d) == [start |-> s, end |-> s + d, duration_minutes |-> d]

\* the walk over one day's sorted events: [slots, cur, full]
RECURSIVE SweepDay(_, _, _, _, _)
SweepDay(evs, cur, slots, dur, max_slots) ==
  IF evs = << >> THEN [slots |-> slots, cur |-> cur, full |-> FALSE]
  ELSE LET ev == Head(evs)
           found == ev.start - cur >= dur
           slots2 == IF found THEN Append(slots, TimeSlot(cur, dur)) ELSE slots
       IN IF found /\ Len(slots2) >= max_slots
            THEN [slots |-> slots2, cur |-> cur, full |-> TRUE]
            ELSE SweepDay(Tail(evs), Max2(cur, ev.end), slots2, dur, max_slots)

RECURSIVE ScanDays(_, _, _, _, _, _)

\* a day's last stretch that must be longer than the duration asked for
AfterSweepStrict(events, day, days_ahead, sw, dur, max_slots) ==
  LET day_end == day * MinutesPerDay + WorkEnd
      tail_ok == day_end - sw.cur > dur
      slots3 == IF tail_ok THEN Append(sw.slots, TimeSlot(sw.cur, dur))
                ELSE sw.slots
  IN IF sw.full THEN sw.slots
     ELSE IF tail_ok /\ Len(slots3) >= max_slots THEN slots3
     ELSE ScanDays(events, day + 1, days_ahead, slots3, dur, max_slots)

\* the rest of one day's iteration once the walk sw over its events is done:
\* the stretch up to the end of the working day, then the next day
AfterSweep(events, day, days_ahead, sw, dur, max_slots) ==
  LET day_end == day * MinutesPerDay + WorkEnd
      tail_ok == day_end - sw.cur >= dur
      slots3 == IF tail_ok THEN Append(sw.slots, TimeSlot(sw.cur, dur))
                ELSE sw.slots
  IN IF sw.full THEN sw.slots
     ELSE IF tail_ok /\ Len(slots3) >= max_slots THEN slots3
     ELSE ScanDays(events, day + 1, days_ahead, slots3, dur, max_slots)

\* the loop over the days: weekends are skipped
ScanDays(events, day, days_ahead, slots, dur, max_slots) ==
  IF day >= days_ahead THEN slots
  ELSE IF (TodayWeekday + day) % 7 >= 5
    THEN ScanDays(events, day + 1, days_ahead, slots, dur, max_slots)
  ELSE LET day_start == day * MinutesPerDay + WorkStart
           day_events == SortByStart({ e \in events : EventDate(e) = day })
       IN CHOOSE out \in
            { AfterSweep(events, day, days_ahead, sw, dur, max_slots) :
                sw \in { SweepDay(day_events, day_start, slots, dur, max_slots) } } :
            TRUE

\* CalendarAgentTool.find_available_slots on the calendar cal
find_available_slots(cal, duration_minutes, days_ahead, max_slots) ==
  ScanDays(fetch_events(cal, days_ahead, 0), 0, days_ahead, << >>,
           duration_minutes, max_slots)

\* ------------------------------------------------------------- actions
\* an optional field is the empty sequence (None) or a one-element sequence
None == << >>
Some(x) == << x >>

MeetingAction(t, id, date, notes, dur) ==
  [action_type |-> t, calendar_event_id |-> id, event_date |-> date,
   notes |-> notes, duration_minutes |-> dur]

\* the actions the generator may plan; event 1 exists in the booked calendar,
\* event 99 never exists; day 0 is today and day 1 tomorrow
ActionCatalogue ==
  { MeetingAction("find_available_slot", None, None, None, 30),
    MeetingAction("add_notes", Some(1), None, Some("n"), DefaultDuration),
    MeetingAction("add_notes", Some(99), None, Some("n"), DefaultDuration),
    MeetingAction("add_notes", Some(1), None, None, DefaultDuration),
    MeetingAction("update_event", Some(1), None, Some("n"), DefaultDuration),
    MeetingAction("create_event", None, Some(1), None, DefaultDuration),
    MeetingAction("create_event", None, Some(0), None, DefaultDuration),
    MeetingAction("create_event", None, None, None, DefaultDuration) }

Plans == UNION { [1..n -> ActionCatalogue] : n \in 0..MaxActions }

\* str(action.action_type) of the str-mixin enum ActionType
StrOfActionType(t) ==
  CASE t = "find_available_slot" -> "ActionType.FIND_SLOT"
    [] t = "add_notes" -> "ActionType.ADD_NOTES"
    [] t = "update_event" -> "ActionType.UPDATE_EVENT"
    [] t = "create_event" -> "ActionType.CREATE_EVENT"

\* MeetingOrchestrator._create_execution_result (the timestamp is left out)
ExecutionResult(status, action_type, event_id) ==
  [status |-> status, action_type |-> action_type, event_id |-> event_id]

\* what json.loads(_extract_json(reply)) yields, or the call raising
TransportError == "transport_error"
Unparseable == "unparseable"
ReplyKinds == { TransportError, Unparseable, "object", "array" }

Message(agent, content) == [agent |-> agent, content |-> content]

Event(type, agent) == [type |-> type, agent |-> agent]

Call(op, idx, ok) == [op |-> op, idx |-> idx, ok |-> ok]

NoResult == [kind |-> "none", planned_actions |-> << >>, execution_results |-> << >>]

\* ---------------------------------------------------------------- state
VARIABLES
  pc,                    \* "idle", "running", "done" (returned), "halted" (raised)
  node,                  \* the graph node the run is at
  pos,                   \* position inside the node: "entry", "call", "phase1", "phase2"
  auto_execute,          \* OrchestratorState.auto_execute
  event_callback,        \* the module global _event_callback (TRUE = a callback is set)
  calendar,              \* the remote calendar store
  messages,              \* OrchestratorState.messages
  calendar_events,       \* OrchestratorState.calendar_events
  related_past_meetings, \* OrchestratorState.related_past_meetings
  planned_actions,       \* OrchestratorState.planned_actions
  execution_results,     \* OrchestratorState.execution_results
  next_steps,            \* OrchestratorState.next_steps
  results,               \* execute_actions' local list results
  available_slots,       \* execute_actions' local list available_slots
  i,                     \* execute_actions' loop position in planned_actions
  events,                \* the events handed to emit_workflow_event, in order
  published,             \* the events the callback received, in order
  calls,                 \* the remote calendar calls made, in order
  executed,              \* indices of the planned actions attempted, in order
  failures,              \* transport failures of the generator: where and when
  unparsed,              \* nodes whose generator reply could not be parsed
  prompt_analysis,       \* the analysis text find_related_meetings puts in its prompt
  mail_sent,             \* whether the summary mail went out
  faults,                \* deviating replies and failed remote calls so far
  result,                \* what the caller of the run received
  text,                  \* the text handed to _extract_json
  extracted,             \* what _extract_json returned for it (None before the call)
  parsed,                \* what the stage that asked for the text made of it (None before)
  slot_events,           \* the calendar find_available_slots is called on
  slot_args,             \* its duration_minutes, days_ahead and max_slots
  slots_found,           \* the list it returned (None before the call)
  name,                  \* the name handed to fuzzy_match_name
  mapping,               \* the attendees of _ATTENDEE_MAPPING, in table order
  matched,               \* what fuzzy_match_name did with it (None before the call)
  workflow_event_queues, \* the registered client queues (by client), in list order
  client_queue,          \* the content of each client's queue
  cstate,                \* where each client is in event_generator
  sent,                  \* what each client's event_generator has yielded, in order
  due,                   \* per client, the events broadcast while it was registered
  event_data,            \* the event each broadcasting thread was called with
  heartbeats,            \* the reads that have timed out so far
  workflow_event_lock,   \* the thread holding the lock (None when free)
  bpc,                   \* where each thread is in broadcast_workflow_event
  bi,                    \* each broadcasting thread's position in the list
  dead_queues,           \* each broadcasting thread's dead_queues
  broadcasts,            \* the calls of broadcast_workflow_event so far
  _event_callback,       \* the module global _event_callback, shared by all runs
  run_callback,          \* the event_callback argument of each call of run_orchestrator
  rpc,                   \* where each of these calls is
  emitted,               \* how many events each of them has emitted
  delivered,             \* which callback received an event of which run, in order
  notes,                 \* ScribeService.notes
  clock,                 \* what datetime.now() returned last
  returned,              \* the last ScribeService call and what it returned
  wnode,                 \* the node MultiAgentWorkflow's graph is at ("idle" between runs)
  agent_state,           \* the AgentState of the run under way or last finished
  conversation_history,  \* Orchestrator.conversation_history
  agent_calls,           \* the calls of agents and of the scribe made so far, in order
  workflow_runs,         \* the calls of MultiAgentWorkflow.run so far
  run_start              \* how many notes, history entries and calls the last run found

vars ==
  << pc, node, pos, auto_execute, event_callback, calendar, messages,
     calendar_events, related_past_meetings, planned_actions,
     execution_results, next_steps, results, available_slots, i, events,
     published, calls, executed, failures, unparsed, prompt_analysis,
     mail_sent, faults, result, text, extracted, parsed,
     slot_events, slot_args,
     slots_found, name, mapping, matched, workflow_event_queues,
     client_queue, cstate, sent, due, event_data, heartbeats,
     workflow_event_lock, bpc, bi, dead_queues, broadcasts, _event_callback,
     run_callback, rpc, emitted, delivered, notes, clock, returned, wnode, agent_state,
     conversation_history, agent_calls, workflow_runs, run_start >>

\* the variables of a pipeline run
pipelineVars ==
  << pc, node, pos, auto_execute, event_callback, calendar, messages,
     calendar_events, related_past_meetings, planned_actions,
     execution_results, next_steps, results, available_slots, i, events,
     published, calls, executed, failures, unparsed, prompt_analysis,
     mail_sent, faults, result >>

\* the variables of the operations checked on their own, outside a run
auxVars ==
  << text, extracted, parsed,
     slot_events, slot_args, slots_found, name, mapping,
     matched, workflow_event_queues, client_queue, cstate, sent, due,
     event_data, heartbeats, workflow_event_lock, bpc, bi, dead_queues,
     broadcasts, _event_callback, run_callback, rpc, emitted, delivered,
     notes, clock, returned, wnode, agent_state,
     conversation_history, agent_calls, workflow_runs, run_start >>

stateVars ==
  << messages, calendar_events, related_past_meetings, planned_actions,
     execution_results, next_steps >>

execVars == << results, available_slots, i, executed >>

\* the pipeline before run_orchestrator is called
PipelineInit ==
  /\ pc = "idle"
  /\ node = "START"
  /\ pos = "entry"
  /\ auto_execute = TRUE
  /\ event_callback = FALSE
  /\ calendar \in InitialCalendars
  /\ messages = << >>
  /\ calendar_events = {}
  /\ related_past_meetings = << >>
  /\ planned_actions = << >>
  /\ execution_results = << >>
  /\ next_steps = << >>
  /\ results = << >>
  /\ available_slots = << >>
  /\ i = 1
  /\ events = << >>
  /\ published = << >>
  /\ calls = << >>
  /\ executed = << >>
  /\ failures = {}
  /\ unparsed = {}
  /\ prompt_analysis = ""
  /\ mail_sent = FALSE
  /\ faults = 0
  /\ result = NoResult

\* no text has been handed to the extractor
ExtractorIdle == text = << >> /\ extracted = None /\ parsed = None

\* find_available_slots has not been called on its own
SlotFinderIdle ==
  /\ slot_events = {}
  /\ slot_args = [duration_minutes |-> DefaultDuration, days_ahead |-> 0,
                  max_slots |-> 0]
  /\ slots_found = None

\* fuzzy_match_name has not been called on its own
ResolverIdle == name = << >> /\ mapping = << >> /\ matched = None

serverVars ==
  << workflow_event_queues, client_queue, cstate, sent, due, event_data,
     heartbeats, workflow_event_lock, bpc, bi, dead_queues, broadcasts >>

runsVars == << _event_callback, run_callback, rpc, emitted, delivered >>

scribeVars == << notes, clock, returned >>

workflowVars ==
  << wnode, agent_state, conversation_history, agent_calls, workflow_runs,
     run_start >>

\* state["agent_response"] and the responses of the agents: what was
\* answered and about how many notes
Response(kind, n) == [kind |-> kind, n |-> n]

NoResponse == Response("", 0)

\* the initial_state of MultiAgentWorkflow.run
initial_state(user_input) ==
  [user_input |-> user_input, intent |-> "", agent_used |-> "",
   agent_response |-> NoResponse]

\* a new MultiAgentWorkflow: no run yet, an empty history
WorkflowIdle ==
  /\ wnode = "idle"
  /\ agent_state = initial_state(<< >>)
  /\ conversation_history = << >>
  /\ agent_calls = << >>
  /\ workflow_runs = 0
  /\ run_start = [notes |-> 0, history |-> 0, calls |-> 0]

\* no call of run_orchestrator is followed on its own
RunsIdle ==
  /\ _event_callback = None
  /\ run_callback = << >>
  /\ rpc = << >>
  /\ emitted = << >>
  /\ delivered = << >>

\* no ScribeService is in use
ScribeIdle == notes = << >> /\ clock = 0 /\ returned = None

\* the server has no client and no thread is broadcasting
ServerIdle ==
  /\ workflow_event_queues = << >>
  /\ client_queue = << >>
  /\ cstate = << >>
  /\ sent = << >>
  /\ due = << >>
  /\ event_data = << >>
  /\ heartbeats = 0
  /\ workflow_event_lock = None
  /\ bpc = << >>
  /\ bi = << >>
  /\ dead_queues = << >>
  /\ broadcasts = 0

Init ==
  /\ PipelineInit
  /\ ExtractorIdle
  /\ SlotFinderIdle
  /\ ResolverIdle
  /\ ServerIdle
  /\ RunsIdle
  /\ ScribeIdle
  /\ WorkflowIdle

\* emit_workflow_event: the event goes to the callback only when one is set
emit_workflow_event(type, agent) ==
  /\ events' = Append(events, Event(type, agent))
  /\ published' = IF event_callback THEN Append(published, Event(type, agent))
                  ELSE published

\* an exception that is dropped where it is raised: the stage goes on
PropagateSwallowed ==
  /\ pc' = pc
  /\ result' = result
  /\ UNCHANGED << node, pos, events, published >>

\* an exception leaves the stage: graph.ainvoke raises, run_orchestrator
\* raises, and orchestrate answers with an error body only
Propagate ==
  /\ pc' = "halted"
  /\ result' = [kind |-> "error", planned_actions |-> << >>,
                execution_results |-> << >>]
  /\ UNCHANGED << node, pos, events, published >>

\* a stage that returns without its stage_complete event
ReturnSilently(agent) ==
  /\ UNCHANGED << events, published >>
  /\ node' = Edge[node]
  /\ pos' = "entry"
  /\ UNCHANGED << pc, result >>

\* the stage returns: the graph moves along its edge
Return(agent) ==
  /\ emit_workflow_event("stage_complete", agent)
  /\ node' = Edge[node]
  /\ pos' = "entry"
  /\ UNCHANGED << pc, result >>

\* _call_nemotron raised: remember in which call and how far the run was
TransportFailure(where) == failures' = failures \cup
  { [where |-> where, nevents |-> Len(events), ncalls |-> Len(calls)] }

\* a reply or remote call that deviates uses up one of the run's faults
Deviate(n) ==
  /\ faults + n <= MaxFaults
  /\ faults' = faults + n

\* run_orchestrator up to graph.ainvoke: sets the callback when one is given
run_orchestrator ==
  /\ pc = "idle"
  /\ \E auto \in BOOLEAN, cb \in BOOLEAN :
       /\ auto_execute' = auto
       /\ event_callback' = (IF cb THEN TRUE ELSE event_callback)
  /\ pc' = "running"
  /\ node' = Edge["START"]
  /\ pos' = "entry"
  /\ UNCHANGED << calendar, stateVars, execVars, events, published, calls,
                  failures, unparsed, prompt_analysis, mail_sent, faults,
                  result >>
  /\ UNCHANGED auxVars

\* the first statement of every stage: emit stage_start
stage_start ==
  /\ pc = "running"
  /\ node \in NodeSet
  /\ pos = "entry"
  /\ emit_workflow_event("stage_start", AgentName[node])
  /\ pos' = "call"
  /\ UNCHANGED << pc, node, auto_execute, event_callback, calendar, stateVars,
                  execVars, calls, failures, unparsed, prompt_analysis,
                  mail_sent, faults, result >>
  /\ UNCHANGED auxVars

InStage(n) == pc = "running" /\ node = n /\ pos = "call"

analyze_transcript ==
  /\ InStage("analyze_transcript")
  /\ \E kind \in ReplyKinds :
       /\ Deviate(IF kind = "object" THEN 0 ELSE 1)
       /\ \/ /\ kind = TransportError
             /\ TransportFailure(node)
             /\ Propagate
             /\ UNCHANGED << messages, unparsed >>
          \/ /\ kind # TransportError
             /\ messages' = Append(messages, Message("none",
                  CASE kind = "object" -> "Meeting Analysis: own"
                    [] kind = "array" -> "Meeting Analysis: from list"
                    [] OTHER -> "Meeting Analysis: default"))
             /\ unparsed' = IF kind = Unparseable
                            THEN unparsed \cup {node} ELSE unparsed
             /\ Return("Transcript Analyzer")
             /\ UNCHANGED failures
  /\ UNCHANGED << auto_execute, event_callback, calendar, calendar_events,
                  related_past_meetings, planned_actions, execution_results,
                  next_steps, execVars, calls, prompt_analysis, mail_sent >>
  /\ UNCHANGED auxVars

research_agent ==
  /\ InStage("research_agent")
  /\ \E kind \in ReplyKinds :
       /\ Deviate(IF kind = "object" THEN 0 ELSE 1)
       /\ messages' = Append(messages, Message("research_agent",
            CASE kind = "object" -> "Research findings"
              [] kind = TransportError ->
                   "Research agent completed with note: transport"
              [] OTHER -> "Research agent completed with note: error"))
       /\ IF kind = TransportError THEN TransportFailure(node)
          ELSE UNCHANGED failures
  /\ Return("Research & Entity Extraction")
  /\ UNCHANGED << auto_execute, event_callback, calendar, calendar_events,
                  related_past_meetings, planned_actions, execution_results,
                  next_steps, execVars, calls, unparsed, prompt_analysis,
                  mail_sent >>
  /\ UNCHANGED auxVars

fetch_calendar_context ==
  /\ InStage("fetch_calendar_context")
  /\ \E ok \in BOOLEAN :
       /\ Deviate(IF ok THEN 0 ELSE 1)
       /\ calls' = Append(calls, Call("list", 0, ok))
       /\ IF ok
            THEN /\ calendar_events' = fetch_events(calendar, ContextDays, ContextDays)
                 /\ Return("Calendar Context Fetch")
            ELSE /\ Propagate
                 /\ UNCHANGED calendar_events
  /\ UNCHANGED << auto_execute, event_callback, calendar, messages,
                  related_past_meetings, planned_actions, execution_results,
                  next_steps, execVars, failures, unparsed, prompt_analysis,
                  mail_sent >>
  /\ UNCHANGED auxVars

find_related_meetings ==
  /\ InStage("find_related_meetings")
  /\ prompt_analysis' = IF messages = << >> THEN "{}" ELSE Last(messages).content
  /\ \E kind \in ReplyKinds :
       /\ Deviate(IF kind = "array" THEN 0 ELSE 1)
       /\ \/ /\ kind = TransportError
             /\ TransportFailure(node)
             /\ Propagate
             /\ UNCHANGED << related_past_meetings, unparsed >>
          \/ /\ kind # TransportError
             /\ \E related \in {<< >>} \cup { << e.id >> : e \in calendar_events } :
                  related_past_meetings' = IF kind = "array" THEN related ELSE << >>
             /\ unparsed' = IF kind = Unparseable
                            THEN unparsed \cup {node} ELSE unparsed
             /\ Return("Related Meetings Finder")
             /\ UNCHANGED failures
  /\ UNCHANGED << auto_execute, event_callback, calendar, messages,
                  calendar_events, planned_actions, execution_results,
                  next_steps, execVars, calls, mail_sent >>
  /\ UNCHANGED auxVars

\* the logging loop of plan_actions slices action.notes of every add_notes action
LoggingRaises(actions) ==
  \E k \in 1..Len(actions) :
    actions[k].action_type = "add_notes" /\ actions[k].notes = None

\* an except branch that leaves the list assigned inside the try block
planned_from_reply_kept(kind, actions_data) == actions_data

\* state.planned_actions after the try/except of plan_actions: the parsed
\* list, or the empty list when parsing, validation or the logging raised
planned_from_reply(kind, actions_data) ==
  IF kind \in {"object", "array"} /\ ~LoggingRaises(actions_data)
  THEN actions_data ELSE << >>

plan_actions ==
  /\ InStage("plan_actions")
  /\ \E kind \in ReplyKinds :
       /\ Deviate(IF kind \in {"array", "object"} THEN 0 ELSE 1)
       /\ \/ /\ kind = TransportError
             /\ TransportFailure(node)
             /\ Propagate
             /\ UNCHANGED << planned_actions, unparsed >>
          \/ /\ kind # TransportError
             /\ \E actions_data \in Plans :
                  /\ kind = "object" => Len(actions_data) = 1
                  /\ planned_actions' = planned_from_reply(kind, actions_data)
             /\ unparsed' = IF kind = Unparseable
                            THEN unparsed \cup {node} ELSE unparsed
             /\ Return("Action Planner")
             /\ UNCHANGED failures
  /\ UNCHANGED << auto_execute, event_callback, calendar, messages,
                  calendar_events, related_past_meetings, execution_results,
                  next_steps, execVars, calls, prompt_analysis, mail_sent >>
  /\ UNCHANGED auxVars

\* an advisory stage that lets a failed generator call leave the stage
advisory_return_raising(kind, agent) ==
  IF kind = TransportError THEN Propagate ELSE Return(agent)

\* the end of decision_agent and risk_assessment_agent: the try branch and
\* the except branch both emit stage_complete and return the state
advisory_return(kind, agent) == Return(agent)

decision_agent ==
  /\ InStage("decision_agent")
  /\ \E kind \in ReplyKinds :
       /\ Deviate(IF kind = "object" THEN 0 ELSE 1)
       /\ messages' = Append(messages, Message("decision_agent",
            CASE kind \in {"object", "array"} -> "Decision analysis"
              [] kind = TransportError ->
                   "Decision agent completed with note: transport"
              [] OTHER -> "Decision agent completed with note: error"))
       /\ IF kind = TransportError THEN TransportFailure(node)
          ELSE UNCHANGED failures
       /\ advisory_return(kind, "Decision Analyzer")
  /\ UNCHANGED << auto_execute, event_callback, calendar, calendar_events,
                  related_past_meetings, planned_actions, execution_results,
                  next_steps, execVars, calls, unparsed, prompt_analysis,
                  mail_sent >>
  /\ UNCHANGED auxVars

risk_assessment_agent ==
  /\ InStage("risk_assessment_agent")
  /\ \E kind \in ReplyKinds :
       /\ Deviate(IF kind = "object" THEN 0 ELSE 1)
       /\ messages' = Append(messages, Message("risk_assessment_agent",
            CASE kind \in {"object", "array"} -> "Risk assessment"
              [] kind = TransportError ->
                   "Risk assessment completed with note: transport"
              [] OTHER -> "Risk assessment completed with note: error"))
       /\ IF kind = TransportError THEN TransportFailure(node)
          ELSE UNCHANGED failures
       /\ advisory_return(kind, "Risk Assessor")
  /\ UNCHANGED << auto_execute, event_callback, calendar, calendar_events,
                  related_past_meetings, planned_actions, execution_results,
                  next_steps, execVars, calls, unparsed, prompt_analysis,
                  mail_sent >>
  /\ UNCHANGED auxVars

\* ------------------------------------------------------ execute_actions
\* a first loop that passes over update_event actions
Phase1TypesNarrow == { "find_available_slot", "add_notes" }

\* the action types the first loop executes
Phase1Types == { "find_available_slot", "add_notes", "update_event" }

EventExists(cal, id) == \E e \in cal : Some(e.id) = id

\* identifier the calendar backend gives to a newly inserted event
NewEventId(cal) == 100 + Cardinality(cal)

\* the result execute_actions records for an add_notes action:
\* add_notes_to_event catches every exception and returns a string
add_notes_result(action) ==
  ExecutionResult("success", "add_notes", action.calendar_event_id)

\* events().get followed by events().update on one event; fail names the
\* call that raises (0: neither); an unknown identifier makes get raise
GetThenUpdate(idx, id, fail) ==
  LET got == fail # 1 /\ EventExists(calendar, id)
  IN << Call("get", idx, got) >>
       \o (IF got THEN << Call("update", idx, fail # 2) >> ELSE << >>)

\* the calls a remote failure can hit: both when the event exists
FailChoices(id) == IF EventExists(calendar, id) THEN 0..2 ELSE {0}

\* a first loop that steps over every other action
AdvancePhase1Skipping ==
  IF i + 1 >= Len(planned_actions) THEN pos' = "phase2" /\ i' = 1
  ELSE pos' = "phase1" /\ i' = i + 2

\* the loop variable after one iteration; the second loop starts when the
\* first has run over the whole list
AdvancePhase1 ==
  IF i >= Len(planned_actions) THEN pos' = "phase2" /\ i' = 1
  ELSE pos' = "phase1" /\ i' = i + 1

\* a second loop that never moves on
AdvancePhase2Stuck == pos' = "phase2" /\ i' = i

AdvancePhase2 == pos' = "phase2" /\ i' = i + 1

\* an executor that never waits for approval
awaiting_approval_ignored == FALSE

\* the test that makes execute_actions skip the execution
awaiting_approval == ~auto_execute

\* the stage after stage_start: the auto_execute test and the two empty lists
execute_actions_begin ==
  /\ InStage("execute_actions")
  /\ IF awaiting_approval
       THEN /\ execution_results' =
                 << ExecutionResult("warning", "pending_approval", None) >>
            /\ Return("Action Executor")
            /\ UNCHANGED execVars
       ELSE /\ results' = << >>
            /\ available_slots' = << >>
            /\ IF planned_actions = << >> THEN pos' = "phase2" ELSE pos' = "phase1"
            /\ i' = 1
            /\ UNCHANGED << pc, node, events, published, result,
                            execution_results, executed >>
  /\ UNCHANGED << auto_execute, event_callback, calendar, messages,
                  calendar_events, related_past_meetings, planned_actions,
                  next_steps, calls, failures, unparsed, prompt_analysis,
                  mail_sent, faults >>
  /\ UNCHANGED auxVars

\* one iteration of the first loop
execute_actions_phase1 ==
  /\ pc = "running" /\ node = "execute_actions" /\ pos = "phase1"
  /\ i <= Len(planned_actions)
  /\ LET action == planned_actions[i] IN
       \/ /\ action.action_type \notin Phase1Types
          /\ UNCHANGED << results, available_slots, executed, calls, faults >>
       \/ /\ action.action_type \in Phase1Types
          /\ action.action_type = "find_available_slot"
          /\ executed' = Append(executed, i)
          /\ \E ok \in BOOLEAN :
               /\ Deviate(IF ok THEN 0 ELSE 1)
               /\ calls' = Append(calls, Call("list", i, ok))
               /\ IF ~ok
                    THEN /\ results' = Append(results, ExecutionResult("error",
                                StrOfActionType(action.action_type), None))
                         /\ UNCHANGED available_slots
                    ELSE LET slots == find_available_slots(calendar,
                                        action.duration_minutes, DaysAhead,
                                        FindSlotMax)
                         IN IF slots # << >>
                              THEN /\ available_slots' = slots
                                   /\ results' = Append(results, ExecutionResult(
                                        "success", "find_available_slot", None))
                              ELSE /\ results' = Append(results, ExecutionResult(
                                        "warning", "find_available_slot", None))
                                   /\ UNCHANGED available_slots
       \/ /\ action.action_type \in Phase1Types
          /\ action.action_type = "add_notes"
          /\ executed' = Append(executed, i)
          /\ \E fail \in FailChoices(action.calendar_event_id) :
               /\ Deviate(IF fail = 0 THEN 0 ELSE 1)
               /\ calls' = calls \o GetThenUpdate(i, action.calendar_event_id, fail)
          /\ results' = Append(results, add_notes_result(action))
          /\ UNCHANGED available_slots
       \/ /\ action.action_type \in Phase1Types
          /\ action.action_type = "update_event"
          /\ executed' = Append(executed, i)
          /\ \E fail \in FailChoices(action.calendar_event_id) :
               /\ Deviate(IF fail = 0 THEN 0 ELSE 1)
               /\ calls' = calls \o GetThenUpdate(i, action.calendar_event_id, fail)
               /\ results' = Append(results,
                    IF fail = 0 /\ EventExists(calendar, action.calendar_event_id)
                    THEN ExecutionResult("success", "update_event",
                                         action.calendar_event_id)
                    ELSE ExecutionResult("error",
                           StrOfActionType(action.action_type), None))
          /\ UNCHANGED available_slots
  /\ AdvancePhase1
  /\ UNCHANGED << pc, node, auto_execute, event_callback, calendar, stateVars,
                  events, published, failures, unparsed, prompt_analysis,
                  mail_sent, result >>
  /\ UNCHANGED auxVars

\* a resolution that takes the last slot of the target date
create_event_time_latest(action, avail, slots) ==
  IF action.event_date # None
    THEN LET target_date == action.event_date[1]
             matching_slots ==
               SelectSeq(slots, LAMBDA s : s.start \div MinutesPerDay = target_date)
             start_dt == target_date * MinutesPerDay + DefaultHour
         IN IF matching_slots # << >>
              THEN Some([start |-> matching_slots[Len(matching_slots)].start,
                         end |-> matching_slots[Len(matching_slots)].end])
              ELSE Some([start |-> start_dt,
                         end |-> start_dt + action.duration_minutes])
  ELSE IF avail # << >>
    THEN Some([start |-> avail[1].start, end |-> avail[1].end])
  ELSE IF slots # << >>
    THEN Some([start |-> slots[1].start, end |-> slots[1].end])
  ELSE None

\* start and end of the event a create_event action asks for, given the
\* slots its own slot query returned; None when no slot was found
create_event_time(action, avail, slots) ==
  IF action.event_date # None
    THEN LET target_date == action.event_date[1]
             matching_slots ==
               SelectSeq(slots, LAMBDA s : s.start \div MinutesPerDay = target_date)
             start_dt == target_date * MinutesPerDay + DefaultHour
         IN IF matching_slots # << >>
              THEN Some([start |-> matching_slots[1].start,
                         end |-> matching_slots[1].end])
              ELSE Some([start |-> start_dt,
                         end |-> start_dt + action.duration_minutes])
  ELSE IF avail # << >>
    THEN Some([start |-> avail[1].start, end |-> avail[1].end])
  ELSE IF slots # << >>
    THEN Some([start |-> slots[1].start, end |-> slots[1].end])
  ELSE None

\* a resolution that asks the slot finder for every create_event action
needs_slot_query_always(action, avail) == TRUE

\* whether resolving the action's time calls find_available_slots: always
\* with a target date, without one only when the first loop left no slots
needs_slot_query(action, avail) ==
  action.event_date # None \/ avail = << >>

\* one iteration of the second loop
execute_actions_phase2 ==
  /\ pc = "running" /\ node = "execute_actions" /\ pos = "phase2"
  /\ i <= Len(planned_actions)
  /\ LET action == planned_actions[i] IN
       \/ /\ action.action_type # "create_event"
          /\ UNCHANGED << results, executed, calls, calendar, faults >>
       \/ /\ action.action_type = "create_event"
          /\ executed' = Append(executed, i)
          /\ LET queries == needs_slot_query(action, available_slots)
                 slots == IF ~queries THEN << >>
                          ELSE find_available_slots(calendar,
                                 action.duration_minutes, DaysAhead,
                                 IF action.event_date # None
                                 THEN DateSlotMax ELSE FreshSlotMax)
                 time == create_event_time(action, available_slots, slots)
                 failed == ExecutionResult("error", "create_event", None)
             IN \/ /\ queries
                   /\ Deviate(1)
                   /\ calls' = Append(calls, Call("list", i, FALSE))
                   /\ results' = Append(results, failed)
                   /\ UNCHANGED calendar
                \/ /\ time = None
                   /\ calls' = Append(calls, Call("list", i, TRUE))
                   /\ results' = Append(results, failed)
                   /\ UNCHANGED << calendar, faults >>
                \/ /\ time # None
                   /\ \E insert_ok \in BOOLEAN :
                        /\ Deviate(IF insert_ok THEN 0 ELSE 1)
                        /\ calls' = calls
                             \o (IF queries THEN << Call("list", i, TRUE) >>
                                 ELSE << >>)
                             \o << Call("insert", i, insert_ok) >>
                        /\ IF insert_ok
                             THEN /\ calendar' = calendar \cup
                                       { CalendarEvent(NewEventId(calendar),
                                                       time[1].start, time[1].end) }
                                  /\ results' = Append(results, ExecutionResult(
                                       "success", "create_event",
                                       Some(NewEventId(calendar))))
                             ELSE /\ results' = Append(results, failed)
                                  /\ UNCHANGED calendar
  /\ AdvancePhase2
  /\ UNCHANGED << pc, node, auto_execute, event_callback, stateVars,
                  available_slots, events, published, failures, unparsed,
                  prompt_analysis, mail_sent, result >>
  /\ UNCHANGED auxVars

\* after the two loops: store the results and emit stage_complete
execute_actions_finish ==
  /\ pc = "running" /\ node = "execute_actions" /\ pos = "phase2"
  /\ i > Len(planned_actions)
  /\ execution_results' = results
  /\ Return("Action Executor")
  /\ UNCHANGED << auto_execute, event_callback, calendar, messages,
                  calendar_events, related_past_meetings, planned_actions,
                  next_steps, execVars, calls, failures, unparsed,
                  prompt_analysis, mail_sent, faults >>
  /\ UNCHANGED auxVars

generate_summary ==
  /\ InStage("generate_summary")
  /\ \/ /\ Deviate(1)
        /\ TransportFailure(node)
        /\ Propagate
        /\ UNCHANGED << messages, next_steps, mail_sent >>
     \/ \E steps_ok \in BOOLEAN, mail_ok \in BOOLEAN :
          /\ Deviate((IF steps_ok THEN 0 ELSE 1) + (IF mail_ok THEN 0 ELSE 1))
          /\ IF steps_ok
               THEN next_steps' = << "step" >> /\ UNCHANGED failures
               ELSE next_steps' = << >> /\ TransportFailure("_generate_next_steps")
          /\ mail_sent' = mail_ok
          /\ messages' = Append(messages, Message("none", "Summary"))
          /\ Return("Summary Generator")
  /\ UNCHANGED << auto_execute, event_callback, calendar, calendar_events,
                  related_past_meetings, planned_actions, execution_results,
                  execVars, calls, unparsed, prompt_analysis >>
  /\ UNCHANGED auxVars

\* run_orchestrator after graph.ainvoke returned: the serialized result
run_orchestrator_return ==
  /\ pc = "running"
  /\ node = "END"
  /\ result' = [kind |-> "ok", planned_actions |-> planned_actions,
                execution_results |-> execution_results]
  /\ pc' = "done"
  /\ UNCHANGED << node, pos, auto_execute, event_callback, calendar, stateVars,
                  execVars, events, published, calls, failures, unparsed,
                  prompt_analysis, mail_sent, faults >>
  /\ UNCHANGED auxVars

Next ==
  \/ run_orchestrator
  \/ stage_start
  \/ analyze_transcript
  \/ research_agent
  \/ fetch_calendar_context
  \/ find_related_meetings
  \/ plan_actions
  \/ decision_agent
  \/ risk_assessment_agent
  \/ execute_actions_begin
  \/ execute_actions_phase1
  \/ execute_actions_phase2
  \/ execute_actions_finish
  \/ generate_summary
  \/ run_orchestrator_return

Spec == Init /\ [][Next]_vars

\* the steps of the runs whose plan has at most MaxFairActions actions
FairNext == Next /\ Len(planned_actions') <= MaxFairActions

\* every external call returns or raises, so a started run keeps taking steps
FairSpec == Init /\ [][FairNext]_vars /\ WF_vars(FairNext)

\* ------------------------------------------- execute_actions on its own
\* longest plan handed to execute_actions when it is called on its own
MaxExecActions == 3

\* a meeting longer than the working day
LongDuration == WorkEnd - WorkStart + 120

\* a target date late in the search horizon: Friday of the second week
LateDate == 11

\* the calendars execute_actions may find: those of a full run, and one with
\* a meeting from 10:00 to 11:00 on day 0 and on day 1
ExecCalendars ==
  InitialCalendars \cup
  { { CalendarEvent(1, 600, 660),
      CalendarEvent(2, MinutesPerDay + 600, MinutesPerDay + 660) } }

\* the actions of the plans handed to it
ExecCatalogue ==
  { MeetingAction("find_available_slot", None, None, None, 30),
    MeetingAction("create_event", None, None, None, DefaultDuration),
    MeetingAction("create_event", None, None, None, LongDuration),
    MeetingAction("create_event", None, Some(0), None, DefaultDuration),
    MeetingAction("create_event", None, Some(LateDate), None, DefaultDuration) }

ExecPlans == UNION { [1..n -> ExecCatalogue] : n \in 0..MaxExecActions }

\* the graph has reached execute_actions with some plan in the state
ExecInit ==
  /\ pc = "running"
  /\ node = "execute_actions"
  /\ pos = "entry"
  /\ auto_execute \in BOOLEAN
  /\ event_callback = FALSE
  /\ calendar \in ExecCalendars
  /\ messages = << >>
  /\ calendar_events = {}
  /\ related_past_meetings = << >>
  /\ planned_actions \in ExecPlans
  /\ execution_results = << >>
  /\ next_steps = << >>
  /\ results = << >>
  /\ available_slots = << >>
  /\ i = 1
  /\ events = << >>
  /\ published = << >>
  /\ calls = << >>
  /\ executed = << >>
  /\ failures = {}
  /\ unparsed = {}
  /\ prompt_analysis = ""
  /\ mail_sent = FALSE
  /\ faults = 0
  /\ result = NoResult
  /\ ExtractorIdle
  /\ SlotFinderIdle
  /\ ResolverIdle
  /\ ServerIdle
  /\ RunsIdle
  /\ ScribeIdle
  /\ WorkflowIdle

\* the first statement of execute_actions
execute_actions_start == node = "execute_actions" /\ stage_start

\* the steps of execute_actions, from its stage_start event to its return
ExecNext ==
  \/ execute_actions_start
  \/ execute_actions_begin
  \/ execute_actions_phase1
  \/ execute_actions_phase2
  \/ execute_actions_finish

ExecSpec == ExecInit /\ [][ExecNext]_vars

\* -------------------------------------------------------- _extract_json
\* longest text body handed to the extractor
MaxText == 4

\* the characters and markers a text is made of: "fence" is a code fence,
\* "fence json" a code fence tagged json, "x" any other character (inside a
\* structure: a scalar with its separators)
Quote == "\""
Backslash == "\\"
ThinkOpen == "<think>"
ThinkClose == "</think>"
Fence == "fence"
JsonFence == "fence json"

BodyChars == { "[", "]", "{", "}", Quote, Backslash, "x" }

RECURSIVE SeqsUpTo(_, _)
SeqsUpTo(S, n) ==
  IF n = 0 THEN { << >> }
  ELSE LET shorter == SeqsUpTo(S, n - 1)
       IN shorter \cup { Append(t, c) : t \in { u \in shorter : Len(u) = n - 1 },
                                        c \in S }

\* the texts tried: a body alone, before an empty array, after a thinking
\* span, inside a fenced block, or as what follows the first key of an object
Texts ==
  LET bodies == SeqsUpTo(BodyChars, MaxText)
  IN bodies
       \cup { b \o << "[", "]" >> : b \in bodies }
       \cup { << ThinkOpen, "x", ThinkClose >> \o b : b \in bodies }
       \cup { << "x", Fence >> \o b \o << Fence >> : b \in bodies }
       \cup { << JsonFence >> \o b \o << Fence, "x" >> : b \in bodies }
       \cup { << "{", Quote, "x", Quote >> \o b \o << "}" >> : b \in bodies }

\* position of the first c in t at or after position from; 0 when there is none
IndexFrom(t, c, from) ==
  IF \E k \in from..Len(t) : t[k] = c
  THEN CHOOSE k \in from..Len(t) : t[k] = c /\ \A j \in from..(k - 1) : t[j] # c
  ELSE 0

\* the removal of every thinking span: from an opening marker to the first
\* closing marker after it
RECURSIVE StripThink(_)
StripThink(t) ==
  IF t = << >> THEN << >>
  ELSE LET close == IndexFrom(t, ThinkClose, 2)
       IN IF Head(t) = ThinkOpen /\ close # 0
            THEN StripThink(SubSeq(t, close + 1, Len(t)))
            ELSE << Head(t) >> \o StripThink(Tail(t))

\* the search for a fenced block that holds a bracketed text: the
\* leftmost opening fence followed by a bracket, greedy up to the last
\* closing fence preceded by the bracket's closer; None when nothing matches
FencedBlock(t, fence) ==
  LET Closes(p, q) ==
        /\ q >= p + 3
        /\ t[q] \in { Fence, JsonFence }
        /\ \/ t[p + 1] = "{" /\ t[q - 1] = "}"
           \/ t[p + 1] = "[" /\ t[q - 1] = "]"
      Opens == { p \in 1..Len(t) : t[p] = fence /\ \E q \in 1..Len(t) : Closes(p, q) }
  IN IF Opens = {} THEN None
     ELSE LET p == CHOOSE a \in Opens : \A b \in Opens : a <= b
              q == CHOOSE a \in 1..Len(t) :
                     Closes(p, a) /\ \A b \in 1..Len(t) : Closes(p, b) => b <= a
          IN Some(SubSeq(t, p + 1, q - 1))

\* the loop over text[start:] of one bracket kind: count of open brackets,
\* in_string and escape flags; the substring up to the position where the
\* count returns to zero, None when the text ends first
RECURSIVE ScanFrom(_, _, _, _, _, _, _, _)
ScanFrom(t, start, k, count, in_string, escape, open, close) ==
  IF k > Len(t) THEN None
  ELSE LET char == t[k]
       IN IF escape
            THEN ScanFrom(t, start, k + 1, count, in_string, FALSE, open, close)
          ELSE IF char = Backslash
            THEN ScanFrom(t, start, k + 1, count, in_string, TRUE, open, close)
          ELSE IF char = Quote
            THEN ScanFrom(t, start, k + 1, count, ~in_string, FALSE, open, close)
          ELSE IF ~in_string /\ char = open
            THEN ScanFrom(t, start, k + 1, count + 1, in_string, FALSE, open, close)
          ELSE IF ~in_string /\ char = close
            THEN IF count - 1 = 0 THEN Some(SubSeq(t, start, k))
                 ELSE ScanFrom(t, start, k + 1, count - 1, in_string, FALSE,
                               open, close)
          ELSE ScanFrom(t, start, k + 1, count, in_string, FALSE, open, close)

\* the scan for one bracket kind, started at text.find(open)
BalancedFrom(t, open, close) ==
  LET start == IndexFrom(t, open, 1)
  IN IF start = 0 THEN None
     ELSE ScanFrom(t, start, start, 0, FALSE, FALSE, open, close)

\* _extract_json after the removal of the thinking spans: the fenced block
\* tagged json, else any fenced block, else the balanced array, else the
\* balanced object, else the text
ExtractStripped(t) ==
  LET json_block == FencedBlock(t, JsonFence)
      code_block == FencedBlock(t, Fence)
      array == BalancedFrom(t, "[", "]")
      object == BalancedFrom(t, "{", "}")
  IN IF json_block # None THEN json_block[1]
     ELSE IF code_block # None THEN code_block[1]
     ELSE IF array # None THEN array[1]
     ELSE IF object # None THEN object[1]
     ELSE t

\* an extractor that leaves the thinking spans in the text
extract_json_unstripped(raw) == ExtractStripped(raw)

\* MeetingOrchestrator._extract_json
extract_json_of(raw) == ExtractStripped(StripThink(raw))

\* a text arrives at the extractor
ExtractInit ==
  /\ PipelineInit
  /\ calendar = {}
  /\ text \in Texts
  /\ extracted = None
  /\ parsed = None
  /\ SlotFinderIdle
  /\ ResolverIdle
  /\ ServerIdle
  /\ RunsIdle
  /\ ScribeIdle
  /\ WorkflowIdle

\* the call of _extract_json on the text
extract_json ==
  /\ extracted = None
  /\ extracted' = Some(extract_json_of(text))
  /\ UNCHANGED << pipelineVars, text, parsed, slot_events, slot_args,
                  slots_found, name, mapping, matched, serverVars, runsVars,
                  scribeVars, workflowVars >>

\* the position after the JSON value that starts at position k of t, 0 when
\* none starts there: a scalar, a string, an array of values or an object of
\* string and value pairs
RECURSIVE ValueEnd(_, _), StringEnd(_, _), ItemsEnd(_, _), MembersEnd(_, _)
StringEnd(t, k) ==
  IF k > Len(t) THEN 0
  ELSE IF t[k] = Quote THEN k + 1
  ELSE IF t[k] = Backslash THEN (IF k + 1 > Len(t) THEN 0 ELSE StringEnd(t, k + 2))
  ELSE StringEnd(t, k + 1)

ItemsEnd(t, k) ==
  IF k > Len(t) THEN 0
  ELSE IF t[k] = "]" THEN k + 1
  ELSE LET e == ValueEnd(t, k) IN IF e = 0 THEN 0 ELSE ItemsEnd(t, e)

MembersEnd(t, k) ==
  IF k > Len(t) THEN 0
  ELSE IF t[k] = "}" THEN k + 1
  ELSE IF t[k] # Quote THEN 0
  ELSE LET key == StringEnd(t, k + 1)
           e == IF key = 0 THEN 0 ELSE ValueEnd(t, key)
       IN IF e = 0 THEN 0 ELSE MembersEnd(t, e)

ValueEnd(t, k) ==
  IF k > Len(t) THEN 0
  ELSE CASE t[k] = "x" -> k + 1
         [] t[k] = Quote -> StringEnd(t, k + 1)
         [] t[k] = "[" -> ItemsEnd(t, k + 1)
         [] t[k] = "{" -> MembersEnd(t, k + 1)
         [] OTHER -> 0

IsJson(t) == t # << >> /\ ValueEnd(t, 1) = Len(t) + 1

\* the items of the JSON array t from position k on, as texts
RECURSIVE JsonItems(_, _)
JsonItems(t, k) ==
  IF k > Len(t) \/ t[k] = "]" THEN << >>
  ELSE << SubSeq(t, k, ValueEnd(t, k) - 1) >> \o JsonItems(t, ValueEnd(t, k))

\* json.loads: a dict, a list of items, a scalar, or JSONDecodeError
json_loads(t) ==
  IF ~IsJson(t) THEN [kind |-> "raises", items |-> << >>]
  ELSE IF t[1] = "{" THEN [kind |-> "dict", items |-> << t >>]
  ELSE IF t[1] = "[" THEN [kind |-> "list", items |-> JsonItems(t, 2)]
  ELSE [kind |-> "scalar", items |-> << >>]

\* state.planned_actions after the try/except of plan_actions, every JSON
\* object standing for one that validates as a MeetingAction: a dict is
\* wrapped in a list, a list item that is no dict makes MeetingAction(**item)
\* raise, and the except branch assigns the empty list
planned_from_json(json_str) ==
  LET actions_data == json_loads(json_str)
  IN IF actions_data.kind \in {"dict", "list"}
          /\ \A k \in 1..Len(actions_data.items) : actions_data.items[k][1] = "{"
       THEN actions_data.items
       ELSE << >>

\* the analysis analyze_transcript stores in its message: the parsed dict,
\* a default analysis around a parsed list, or the default analysis of the
\* except branch (a scalar has no get)
analysis_from_json(json_str) ==
  LET analysis == json_loads(json_str)
  IN CASE analysis.kind = "dict" ->
            [meeting_title |-> "own", source |-> analysis.items[1]]
       [] analysis.kind = "list" ->
            [meeting_title |-> "Meeting Discussion", source |-> json_str]
       [] OTHER ->
            [meeting_title |-> "Meeting Discussion", source |-> << >>]

\* plan_actions from the extraction of the generator's reply on
plan_actions_parse ==
  /\ extracted # None
  /\ parsed = None
  /\ parsed' = Some([by |-> "plan_actions",
                     value |-> planned_from_json(extracted[1])])
  /\ UNCHANGED << pipelineVars, text, extracted, slot_events, slot_args,
                  slots_found, name, mapping, matched, serverVars, runsVars,
                  scribeVars, workflowVars >>

\* analyze_transcript from the extraction of the generator's reply on
analyze_transcript_parse ==
  /\ extracted # None
  /\ parsed = None
  /\ parsed' = Some([by |-> "analyze_transcript",
                     value |-> analysis_from_json(extracted[1])])
  /\ UNCHANGED << pipelineVars, text, extracted, slot_events, slot_args,
                  slots_found, name, mapping, matched, serverVars, runsVars,
                  scribeVars, workflowVars >>

ExtractNext ==
  \/ extract_json
  \/ plan_actions_parse
  \/ analyze_transcript_parse

ExtractSpec == ExtractInit /\ [][ExtractNext]_vars

\* ------------------------------------------------- find_available_slots
\* most events in the calendar, and largest max_slots asked for
MaxEvents == 2
MaxSlotsArg == 3

\* the events a calendar is drawn from: a meeting inside working hours, one
\* that starts before them, one that runs overnight into day 1, a fully
\* booked day 1, one that ends after working hours, and a long morning
SlotEventChoices ==
  { CalendarEvent(1, 600, 660),
    CalendarEvent(2, 510, 570),
    CalendarEvent(3, 1320, MinutesPerDay + 600),
    CalendarEvent(4, MinutesPerDay + WorkStart, MinutesPerDay + WorkEnd),
    CalendarEvent(5, 990, 1080),
    CalendarEvent(6, WorkStart, 720) }

SlotDurations == { 30, DefaultDuration, WorkEnd - WorkStart }

SlotHorizons == { 1, 2, 7 }

\* a calendar and the arguments of one call
SlotInit ==
  /\ PipelineInit
  /\ calendar = {}
  /\ ExtractorIdle
  /\ slot_events \in { S \in SUBSET SlotEventChoices : Cardinality(S) <= MaxEvents }
  /\ slot_args \in [duration_minutes : SlotDurations, days_ahead : SlotHorizons,
                    max_slots : 0..MaxSlotsArg]
  /\ slots_found = None
  /\ ResolverIdle
  /\ ServerIdle
  /\ RunsIdle
  /\ ScribeIdle
  /\ WorkflowIdle

\* the call of find_available_slots
find_slots ==
  /\ slots_found = None
  /\ slots_found' = Some(find_available_slots(slot_events,
                           slot_args.duration_minutes, slot_args.days_ahead,
                           slot_args.max_slots))
  /\ UNCHANGED << pipelineVars, text, extracted, parsed,
     slot_events, slot_args,
                  name, mapping, matched, serverVars, runsVars, scribeVars, workflowVars >>

SlotNext == find_slots

SlotSpec == SlotInit /\ [][SlotNext]_vars

\* ------------------------------------------------------ fuzzy_match_name
\* longest name handed to the resolver
MaxName == 3

\* the default threshold 0.8 as a fraction
ThresholdNum == 4
ThresholdDen == 5

NameChars == { "a", "b", "A", " " }

Names == SeqsUpTo(NameChars, MaxName)

\* str.lower on the characters of a name
LowerChar(c) == IF c = "A" THEN "a" ELSE c
Lower(n) == [k \in 1..Len(n) |-> LowerChar(n[k])]

\* str.strip: the name without leading and trailing white space
RECURSIVE Strip(_)
Strip(n) ==
  IF n = << >> THEN << >>
  ELSE IF Head(n) = " " THEN Strip(Tail(n))
  ELSE IF n[Len(n)] = " " THEN Strip(SubSeq(n, 1, Len(n) - 1))
  ELSE n

\* str.split: the maximal runs of characters other than white space
RECURSIVE Split(_, _)
Split(n, word) ==
  IF n = << >> THEN (IF word = << >> THEN << >> ELSE << word >>)
  ELSE IF Head(n) = " "
    THEN (IF word = << >> THEN << >> ELSE << word >>) \o Split(Tail(n), << >>)
  ELSE Split(Tail(n), Append(word, Head(n)))

\* the matching blocks of a[alo..ahi] and b[blo..bhi]
Blocks(a, alo, ahi, b, blo, bhi) ==
  { x \in [i : alo..ahi, j : blo..bhi, k : 1..Len(a)] :
      /\ x.i + x.k - 1 <= ahi
      /\ x.j + x.k - 1 <= bhi
      /\ \A d \in 0..(x.k - 1) : a[x.i + d] = b[x.j + d] }

\* SequenceMatcher: the characters in matching blocks, found by taking the
\* longest block (leftmost in a, then in b) and matching both sides of it
RECURSIVE MatchCount(_, _, _, _, _, _)
MatchCount(a, alo, ahi, b, blo, bhi) ==
  LET found == Blocks(a, alo, ahi, b, blo, bhi)
  IN IF found = {} THEN 0
     ELSE LET m == CHOOSE x \in found : \A y \in found :
                     \/ x.k > y.k
                     \/ x.k = y.k /\ x.i < y.i
                     \/ x.k = y.k /\ x.i = y.i /\ x.j <= y.j
          IN m.k + MatchCount(a, alo, m.i - 1, b, blo, m.j - 1)
                 + MatchCount(a, m.i + m.k, ahi, b, m.j + m.k, bhi)

\* the numerator and denominator of SequenceMatcher(None, a, b).ratio()
RatioNum(a, b) ==
  IF Len(a) + Len(b) = 0 THEN 1 ELSE 2 * MatchCount(a, 1, Len(a), b, 1, Len(b))
RatioDen(a, b) == IF Len(a) + Len(b) = 0 THEN 1 ELSE Len(a) + Len(b)

\* similarity >= threshold
Similar(a, b) == RatioNum(a, b) * ThresholdDen >= ThresholdNum * RatioDen(a, b)

Attendee(primary_name, email, aliases) ==
  [primary_name |-> primary_name, email |-> email, aliases |-> aliases]

DefaultDomain == "example.com"

\* the mapping tables tried, made of three attendees with the aliases
\* "Ab", "abab" and "aba"
AttendeeTables ==
  LET P == Attendee(<< "a", "b" >>, "p@bison", << << "A", "b" >> >>)
      Q == Attendee(<< "a", "b", "a", "b" >>, "q@bison",
                    << << "a", "b", "a", "b" >> >>)
      R == Attendee(<< "b", "a" >>, "r@bison", << << "a", "b", "a" >> >>)
  IN { << >>, << P, Q >>, << Q, P >>, << Q, R >> }

\* the first attendee whose primary name or an alias equals n; 0 when none
ExactIndex(n, table) ==
  LET hits == { k \in 1..Len(table) :
                  \/ n = Lower(table[k].primary_name)
                  \/ \E x \in 1..Len(table[k].aliases) :
                       n = Lower(table[k].aliases[x]) }
  IN IF hits = {} THEN 0 ELSE CHOOSE k \in hits : \A j \in hits : k <= j

\* the first attendee with an alias at or above the threshold; 0 when none
FuzzyIndex(n, table) ==
  LET hits == { k \in 1..Len(table) :
                  \E x \in 1..Len(table[k].aliases) :
                    Similar(n, Lower(table[k].aliases[x])) }
  IN IF hits = {} THEN 0 ELSE CHOOSE k \in hits : \A j \in hits : k <= j

\* the record built for a name that matches nobody; parts[0] raises
\* IndexError when the name has no token
Generated(n, nm) ==
  LET parts == Split(n, << >>)
  IN IF parts = << >> THEN [kind |-> "raises"]
     ELSE [kind |-> "record", primary_name |-> n,
           email |-> [local |-> IF Len(parts) >= 2
                                THEN parts[1] \o << "." >> \o parts[Len(parts)]
                                ELSE parts[1],
                      domain |-> DefaultDomain],
           aliases |-> << nm >>]

Found(a) ==
  [kind |-> "record", primary_name |-> a.primary_name, email |-> a.email,
   aliases |-> a.aliases]

\* a resolver that tries the similar aliases before the equal ones
fuzzy_match_name_similar_first(nm, table) ==
  IF nm = << >> THEN [kind |-> "none"]
  ELSE LET n == Strip(Lower(nm))
       IN IF FuzzyIndex(n, table) # 0 THEN Found(table[FuzzyIndex(n, table)])
          ELSE IF ExactIndex(n, table) # 0 THEN Found(table[ExactIndex(n, table)])
          ELSE Generated(n, nm)

\* fuzzy_match_name with the default threshold
fuzzy_match_name_of(nm, table) ==
  IF nm = << >> THEN [kind |-> "none"]
  ELSE LET n == Strip(Lower(nm))
       IN IF ExactIndex(n, table) # 0 THEN Found(table[ExactIndex(n, table)])
          ELSE IF FuzzyIndex(n, table) # 0 THEN Found(table[FuzzyIndex(n, table)])
          ELSE Generated(n, nm)

\* a name and a mapping table arrive at the resolver
ResolverInit ==
  /\ PipelineInit
  /\ calendar = {}
  /\ ExtractorIdle
  /\ SlotFinderIdle
  /\ name \in Names
  /\ mapping \in AttendeeTables
  /\ matched = None
  /\ ServerIdle
  /\ RunsIdle
  /\ ScribeIdle
  /\ WorkflowIdle

\* the call of fuzzy_match_name
fuzzy_match_name ==
  /\ matched = None
  /\ matched' = Some(fuzzy_match_name_of(name, mapping))
  /\ UNCHANGED << pipelineVars, text, extracted, parsed,
     slot_events, slot_args,
                  slots_found, name, mapping, serverVars, runsVars, scribeVars, workflowVars >>

ResolverNext == fuzzy_match_name

ResolverSpec == ResolverInit /\ [][ResolverNext]_vars

\* ------------------------------------------- broadcast_workflow_event
\* threads that broadcast, clients that connect, calls of the broadcast,
\* reads that time out, and the capacity of a client queue (maxsize, scaled
\* down)
MaxBroadcasters == 2
MaxClients == 2
MaxBroadcasts == 3
MaxFairBroadcasts == 2
MaxHeartbeats == 1
QueueMaxsize == 1

Broadcasters == 1..MaxBroadcasters
Clients == 1..MaxClients

\* the events: the one a client is greeted with, the one a timed-out read
\* yields, and the n-th event handed to broadcast_workflow_event
Connected == [type |-> "connected"]
Heartbeat == [type |-> "heartbeat"]
WorkflowEvent(n) == [type |-> "stage_start", id |-> n]

\* the list without its element at position k
RemoveAt(list, k) == SubSeq(list, 1, k - 1) \o SubSeq(list, k + 1, Len(list))

Reversed(list) == [k \in 1..Len(list) |-> list[Len(list) + 1 - k]]

\* workflow_event_queues.pop(i) for each i of order, one after the other
RECURSIVE PopAll(_, _)
PopAll(queues, order) ==
  IF order = << >> THEN queues
  ELSE PopAll(RemoveAt(queues, Head(order)), Tail(order))

\* the removal of the dead queues in the order they were found
PopDeadForward(queues, dead) == PopAll(queues, dead)

\* for i in reversed(dead_queues): workflow_event_queues.pop(i)
PopDead(queues, dead) == PopAll(queues, Reversed(dead))

\* the positions of queue c in the list
Registered(c) ==
  \E k \in 1..Len(workflow_event_queues) : workflow_event_queues[k] = c

ServerInit ==
  /\ PipelineInit
  /\ calendar = {}
  /\ ExtractorIdle
  /\ SlotFinderIdle
  /\ ResolverIdle
  /\ workflow_event_queues = << >>
  /\ client_queue = [c \in Clients |-> << >>]
  /\ cstate = [c \in Clients |-> "new"]
  /\ sent = [c \in Clients |-> << >>]
  /\ due = [c \in Clients |-> << >>]
  /\ event_data = [t \in Broadcasters |-> None]
  /\ heartbeats = 0
  /\ workflow_event_lock = None
  /\ bpc = [t \in Broadcasters |-> "idle"]
  /\ bi = [t \in Broadcasters |-> 0]
  /\ dead_queues = [t \in Broadcasters |-> << >>]
  /\ broadcasts = 0
  /\ RunsIdle
  /\ ScribeIdle
  /\ WorkflowIdle

otherVars ==
  << pipelineVars, text, extracted, parsed,
     slot_events, slot_args, slots_found, name,
     mapping, matched, runsVars, scribeVars, workflowVars >>

broadcastVars == << event_data, bpc, bi, dead_queues, broadcasts >>

\* event_generator starts: client c creates its queue and registers it
\* (the clients are numbered in the order they connect)
stream_workflow_connect(c) ==
  /\ cstate[c] = "new"
  /\ \A b \in Clients : b < c => cstate[b] # "new"
  /\ workflow_event_lock = None
  /\ workflow_event_queues' = Append(workflow_event_queues, c)
  /\ cstate' = [cstate EXCEPT ![c] = "registered"]
  /\ UNCHANGED << otherVars, broadcastVars, client_queue, sent, due,
                  heartbeats, workflow_event_lock >>

\* event_generator yields the connection message
stream_workflow_connected(c) ==
  /\ cstate[c] = "registered"
  /\ sent' = [sent EXCEPT ![c] = Append(@, Connected)]
  /\ cstate' = [cstate EXCEPT ![c] = "streaming"]
  /\ UNCHANGED << otherVars, broadcastVars, workflow_event_queues,
                  client_queue, due, heartbeats, workflow_event_lock >>

\* a reader that yields the oldest event and leaves it in the queue
GetLeaves(c) ==
  /\ sent' = [sent EXCEPT ![c] = Append(@, Head(client_queue[c]))]
  /\ UNCHANGED client_queue

\* client_queue.get: the oldest event of the queue is taken and yielded
Get(c) ==
  /\ sent' = [sent EXCEPT ![c] = Append(@, Head(client_queue[c]))]
  /\ client_queue' = [client_queue EXCEPT ![c] = Tail(@)]

\* event_generator: client c reads the next event and yields it
stream_workflow_get(c) ==
  /\ cstate[c] = "streaming"
  /\ client_queue[c] # << >>
  /\ Get(c)
  /\ UNCHANGED << otherVars, broadcastVars, workflow_event_queues, cstate,
                  due, heartbeats, workflow_event_lock >>

\* a reader that puts its heartbeat through the queue
HeartbeatQueued(c) ==
  /\ client_queue' = [client_queue EXCEPT ![c] = Append(@, Heartbeat)]
  /\ UNCHANGED sent

\* except queue.Empty: the heartbeat is yielded
HeartbeatYielded(c) ==
  /\ sent' = [sent EXCEPT ![c] = Append(@, Heartbeat)]
  /\ UNCHANGED client_queue

\* event_generator: the read of client c times out on an empty queue
stream_workflow_timeout(c) ==
  /\ cstate[c] = "streaming"
  /\ client_queue[c] = << >>
  /\ heartbeats < MaxHeartbeats
  /\ heartbeats' = heartbeats + 1
  /\ HeartbeatYielded(c)
  /\ UNCHANGED << otherVars, broadcastVars, workflow_event_queues, cstate,
                  due, workflow_event_lock >>

\* a removal by position in the list that does not look for the queue
RemoveFirst(c) ==
  workflow_event_queues' = Tail(workflow_event_queues)

\* if client_queue in workflow_event_queues: remove(client_queue)
Remove(c) ==
  workflow_event_queues' =
    SelectSeq(workflow_event_queues, LAMBDA q : q # c)

\* event_generator's finally: client c disconnects and its queue is removed
stream_workflow_disconnect(c) ==
  /\ cstate[c] = "streaming"
  /\ workflow_event_lock = None
  /\ Remove(c)
  /\ cstate' = [cstate EXCEPT ![c] = "gone"]
  /\ UNCHANGED << otherVars, broadcastVars, client_queue, sent, due,
                  heartbeats, workflow_event_lock >>

\* thread t calls broadcast_workflow_event with the next event (the threads
\* are numbered in the order of their first call)
broadcast_call(t) ==
  /\ bpc[t] \in { "idle", "returned" }
  /\ \A u \in Broadcasters : u < t => bpc[u] # "idle"
  /\ broadcasts < MaxBroadcasts
  /\ broadcasts' = broadcasts + 1
  /\ event_data' = [event_data EXCEPT ![t] = WorkflowEvent(broadcasts + 1)]
  /\ bpc' = [bpc EXCEPT ![t] = "lock"]
  /\ UNCHANGED << otherVars, workflow_event_queues, client_queue, cstate,
                  sent, due, heartbeats, workflow_event_lock, bi,
                  dead_queues >>

\* a thread that enters the block without waiting for the lock
LockIgnored == TRUE

\* with workflow_event_lock: the thread waits until the lock is free
LockFree == workflow_event_lock = None

\* thread t enters the with block; the event is now due to every client
\* registered
broadcast_lock(t) ==
  /\ bpc[t] = "lock"
  /\ LockFree
  /\ workflow_event_lock' = Some(t)
  /\ bpc' = [bpc EXCEPT ![t] = "put"]
  /\ bi' = [bi EXCEPT ![t] = 1]
  /\ dead_queues' = [dead_queues EXCEPT ![t] = << >>]
  /\ due' = [c \in Clients |->
               IF Registered(c) THEN Append(due[c], event_data[t]) ELSE due[c]]
  /\ UNCHANGED << otherVars, workflow_event_queues, client_queue, cstate,
                  sent, event_data, heartbeats, broadcasts >>

\* queue.Full escapes the call, the with block releasing the lock
QueueFullRaises(t) ==
  /\ bpc' = [bpc EXCEPT ![t] = "raised"]
  /\ workflow_event_lock' = None
  /\ UNCHANGED << client_queue, bi, dead_queues >>

\* except queue.Full: the queue is marked for removal
QueueFull(t) ==
  /\ dead_queues' = [dead_queues EXCEPT ![t] = Append(@, bi[t])]
  /\ bi' = [bi EXCEPT ![t] = @ + 1]
  /\ UNCHANGED << client_queue, workflow_event_lock, bpc >>

\* one turn of the loop: q.put_nowait(event_data) on the next queue
broadcast_put(t) ==
  /\ bpc[t] = "put"
  /\ bi[t] <= Len(workflow_event_queues)
  /\ LET c == workflow_event_queues[bi[t]]
     IN IF Len(client_queue[c]) >= QueueMaxsize
          THEN QueueFull(t)
          ELSE /\ client_queue' =
                    [client_queue EXCEPT ![c] = Append(@, event_data[t])]
               /\ bi' = [bi EXCEPT ![t] = @ + 1]
               /\ UNCHANGED << workflow_event_lock, bpc, dead_queues >>
  /\ UNCHANGED << otherVars, workflow_event_queues, cstate, sent, due,
                  event_data, heartbeats, broadcasts >>

\* after the loop: the dead queues are removed and the lock is released
broadcast_return(t) ==
  /\ bpc[t] = "put"
  /\ bi[t] > Len(workflow_event_queues)
  /\ workflow_event_queues' = PopDead(workflow_event_queues, dead_queues[t])
  /\ workflow_event_lock' = None
  /\ bpc' = [bpc EXCEPT ![t] = "returned"]
  /\ UNCHANGED << otherVars, client_queue, cstate, sent, due, event_data,
                  heartbeats, bi, dead_queues, broadcasts >>

\* the steps of thread t inside broadcast_workflow_event
broadcast_workflow_event(t) ==
  \/ broadcast_lock(t)
  \/ broadcast_put(t)
  \/ broadcast_return(t)

ServerNext ==
  \/ \E c \in Clients : stream_workflow_connect(c)
  \/ \E c \in Clients : stream_workflow_connected(c)
  \/ \E c \in Clients : stream_workflow_get(c)
  \/ \E c \in Clients : stream_workflow_timeout(c)
  \/ \E c \in Clients : stream_workflow_disconnect(c)
  \/ \E t \in Broadcasters : broadcast_call(t)
  \/ \E t \in Broadcasters : broadcast_workflow_event(t)

ServerSpec == ServerInit /\ [][ServerNext]_vars

\* the server with fewer calls of the broadcast
ServerFairNext == ServerNext /\ broadcasts' <= MaxFairBroadcasts

\* a thread inside broadcast_workflow_event keeps running; no client is
\* required ever to read its queue
ServerFairSpec ==
  /\ ServerInit
  /\ [][ServerFairNext]_vars
  /\ \A t \in Broadcasters : WF_vars(broadcast_workflow_event(t))

\* ------------------------------------------- set_workflow_event_callback
\* calls of run_orchestrator followed, and events each of them emits
MaxRuns == 2
MaxEmits == 2

Runs == 1..MaxRuns

\* the callbacks a caller may pass: none, or one of two functions
Callbacks == { None, Some("broadcast_workflow_event"), Some("other") }

RunsInit ==
  /\ PipelineInit
  /\ calendar = {}
  /\ ExtractorIdle
  /\ SlotFinderIdle
  /\ ResolverIdle
  /\ ServerIdle
  /\ ScribeIdle
  /\ WorkflowIdle
  /\ _event_callback = None
  /\ run_callback = [r \in Runs |-> None]
  /\ rpc = [r \in Runs |-> "idle"]
  /\ emitted = [r \in Runs |-> 0]
  /\ delivered = << >>

notRunsVars ==
  << pipelineVars, text, extracted, parsed,
     slot_events, slot_args, slots_found, name,
     mapping, matched, serverVars, scribeVars, workflowVars >>

\* run_orchestrator is called with the argument event_callback = cb
run_orchestrator_call(r, cb) ==
  /\ rpc[r] = "idle"
  /\ \A q \in Runs : q < r => rpc[q] # "idle"
  /\ run_callback' = [run_callback EXCEPT ![r] = cb]
  /\ rpc' = [rpc EXCEPT ![r] = "called"]
  /\ UNCHANGED << notRunsVars, _event_callback, emitted, delivered >>

\* if event_callback: set_workflow_event_callback(event_callback)
SetIfGiven(cb) ==
  _event_callback' = IF cb # None THEN cb ELSE _event_callback

\* the run sets up its callback and invokes the graph
run_orchestrator_setup(r) ==
  /\ rpc[r] = "called"
  /\ SetIfGiven(run_callback[r])
  /\ rpc' = [rpc EXCEPT ![r] = "running"]
  /\ UNCHANGED << notRunsVars, run_callback, emitted, delivered >>

\* emit_workflow_event, called by a stage of run r
run_emit(r) ==
  /\ rpc[r] = "running"
  /\ emitted[r] < MaxEmits
  /\ emitted' = [emitted EXCEPT ![r] = @ + 1]
  /\ delivered' =
       IF _event_callback # None
         THEN Append(delivered, [run |-> r, callback |-> _event_callback])
         ELSE delivered
  /\ UNCHANGED << notRunsVars, _event_callback, run_callback, rpc >>

\* the run returns
run_return(r) ==
  /\ rpc[r] = "running"
  /\ rpc' = [rpc EXCEPT ![r] = "returned"]
  /\ UNCHANGED << notRunsVars, _event_callback, run_callback, emitted,
                  delivered >>

RunsNext ==
  \/ \E r \in Runs, cb \in Callbacks : run_orchestrator_call(r, cb)
  \/ \E r \in Runs : run_orchestrator_setup(r)
  \/ \E r \in Runs : run_emit(r)
  \/ \E r \in Runs : run_return(r)

RunsSpec == RunsInit /\ [][RunsNext]_vars

\* ----------------------------------------------------------- ScribeService
\* notes taken, and values of the clock
MaxNotes == 3
MaxClock == 2

NoteContents == { << "A", "b" >>, << "b" >> }
NoteTags == { None, Some(<< "work" >>), Some(<< "", "meeting" >>) }
Tags == { None, Some(""), Some("work"), Some("meeting") }
Queries == { << >>, << "a" >>, << "A", "b" >>, << "b", "a" >> }
Limits == 0..(MaxNotes + 1)

ScribeInit ==
  /\ PipelineInit
  /\ calendar = {}
  /\ ExtractorIdle
  /\ SlotFinderIdle
  /\ ResolverIdle
  /\ ServerIdle
  /\ RunsIdle
  /\ notes = << >>
  /\ clock = 0
  /\ returned = None
  /\ WorkflowIdle

notScribeVars ==
  << pipelineVars, text, extracted, parsed,
     slot_events, slot_args, slots_found, name,
     mapping, matched, serverVars, runsVars, workflowVars >>

\* an id counted from zero
NextIdFromZero(list) == Len(list)

\* len(self.notes) + 1
NextId(list) == Len(list) + 1

\* take_note(content, tags) when datetime.now() returns now
take_note(content, tags, now) ==
  /\ Len(notes) < MaxNotes
  /\ LET note == [id |-> NextId(notes), content |-> content,
                  timestamp |-> now,
                  tags |-> IF tags = None \/ tags[1] = << >>
                             THEN << >> ELSE tags[1]]
     IN /\ notes' = Append(notes, note)
        /\ returned' = Some([op |-> "take_note", content |-> content,
                             tags |-> tags, value |-> note])
  /\ clock' = now
  /\ UNCHANGED notScribeVars

\* get_notes: the notes with the tag, or all of them when the tag is falsy
get_notes_of(tag) ==
  IF tag # None /\ tag[1] # ""
    THEN SelectSeq(notes, LAMBDA n : \E k \in 1..Len(n.tags) : n.tags[k] = tag[1])
    ELSE notes

get_notes(tag) ==
  /\ returned' = Some([op |-> "get_notes", tag |-> tag,
                       value |-> get_notes_of(tag)])
  /\ UNCHANGED << notScribeVars, notes, clock >>

\* q in c: q occurs in c as a run of adjacent characters
Contains(c, q) ==
  \E k \in 0..(Len(c) - Len(q)) : SubSeq(c, k + 1, k + Len(q)) = q

\* a search that compares the characters as they are
search_notes_exact(query) ==
  SelectSeq(notes, LAMBDA n : Contains(n.content, query))

\* search_notes: query.lower() in note["content"].lower()
search_notes_of(query) ==
  SelectSeq(notes, LAMBDA n : Contains(Lower(n.content), Lower(query)))

search_notes(query) ==
  /\ returned' = Some([op |-> "search_notes", query |-> query,
                       value |-> search_notes_of(query)])
  /\ UNCHANGED << notScribeVars, notes, clock >>

\* sorted(list, key = timestamp, reverse = True): the sort is stable, so
\* that notes of one timestamp keep their order
RECURSIVE SortedNewestFirst(_)
SortedNewestFirst(list) ==
  IF list = << >> THEN << >>
  ELSE LET top == CHOOSE k \in 1..Len(list) :
                    /\ \A j \in 1..Len(list) : list[j].timestamp <= list[k].timestamp
                    /\ \A j \in 1..(k - 1) : list[j].timestamp < list[k].timestamp
       IN << list[top] >> \o SortedNewestFirst(RemoveAt(list, top))

\* list[:limit], also for a negative limit
Slice(list, limit) ==
  IF limit >= 0
    THEN SubSeq(list, 1, IF limit < Len(list) THEN limit ELSE Len(list))
    ELSE SubSeq(list, 1, Len(list) + limit)

\* the notes in the order they were taken, cut at limit
get_recent_notes_unsorted(limit) == Slice(notes, limit)

\* get_recent_notes
get_recent_notes_of(limit) == Slice(SortedNewestFirst(notes), limit)

get_recent_notes(limit) ==
  /\ returned' = Some([op |-> "get_recent_notes", limit |-> limit,
                       value |-> get_recent_notes_of(limit)])
  /\ UNCHANGED << notScribeVars, notes, clock >>

ScribeNext ==
  \/ \E content \in NoteContents, tags \in NoteTags, now \in 1..MaxClock :
       take_note(content, tags, now)
  \/ \E tag \in Tags : get_notes(tag)
  \/ \E query \in Queries : search_notes(query)
  \/ \E limit \in Limits : get_recent_notes(limit)

ScribeSpec == ScribeInit /\ [][ScribeNext]_vars

\* ------------------------------------------------------ MultiAgentWorkflow
\* calls of MultiAgentWorkflow.run
MaxWorkflowRuns == 2

\* the user inputs tried, word by word
UserInputs ==
  { << "take", " ", "note", ":", " ", "b" >>,
    << "take", " ", "note" >>,
    << "create", " ", "note", " ", "b" >>,
    << "search", " ", "b" >>,
    << "recent" >>,
    << "hi" >> }

\* the agent names the classifier may answer with
AgentNames == { "CALENDAR", "SUMMARIZER", "ARCHIVIST", "SCRIBE", "UNKNOWN" }

\* the route of _route_decision for an agent name
RouteOf(agent) ==
  CASE agent = "CALENDAR" -> "route_to_calendar"
    [] agent = "SUMMARIZER" -> "route_to_summarizer"
    [] agent = "ARCHIVIST" -> "route_to_archivist"
    [] agent = "SCRIBE" -> "route_to_scribe"
    [] OTHER -> "finalize"

\* str.strip(c): s without the leading and trailing words equal to c
StripChar(s, c) ==
  LET keep == { k \in 1..Len(s) : s[k] # c }
  IN IF keep = {} THEN << >>
     ELSE SubSeq(s, CHOOSE k \in keep : \A j \in keep : k <= j,
                    CHOOSE k \in keep : \A j \in keep : j <= k)

\* s.split(word)[-1]: what follows the last occurrence of word in s
AfterLast(s, word) ==
  LET at == { k \in 1..Len(s) : s[k] = word }
  IN IF at = {} THEN s
     ELSE SubSeq(s, (CHOOSE k \in at : \A j \in at : j <= k) + 1, Len(s))

\* user_input.split("note")[-1].strip(":").strip()
NoteContentOf(user_input) ==
  StripChar(StripChar(AfterLast(user_input, "note"), ":"), " ")

\* user_input.split("search")[-1].strip()
QueryOf(user_input) == StripChar(AfterLast(user_input, "search"), " ")

\* words in user_input.lower()
Says(user_input, words) == Contains(Lower(user_input), words)

\* ScribeService.notes after take_note(content) at time now
NotesAfterTake(content, now) ==
  Append(notes, [id |-> NextId(notes), content |-> content,
                 timestamp |-> now, tags |-> << >>])

AgentCall(agent, op) == [agent |-> agent, op |-> op]

notWorkflowVars ==
  << pipelineVars, text, extracted, parsed, slot_events, slot_args,
     slots_found, name, mapping, matched, serverVars, runsVars >>

\* MultiAgentWorkflow.run up to workflow.invoke
workflow_run(user_input) ==
  /\ wnode = "idle"
  /\ workflow_runs < MaxWorkflowRuns
  /\ workflow_runs' = workflow_runs + 1
  /\ agent_state' = initial_state(user_input)
  /\ run_start' = [notes |-> Len(notes), history |-> Len(conversation_history),
                   calls |-> Len(agent_calls)]
  /\ wnode' = "classify_intent"
  /\ UNCHANGED << notWorkflowVars, scribeVars, conversation_history, agent_calls >>

\* Orchestrator._route_to_agent for the agent name the classifier gave:
\* the call it makes, its response, and what it does to the notes
route_to_agent(agent, user_input, now) ==
  IF agent \in { "CALENDAR", "SUMMARIZER", "ARCHIVIST" }
    THEN /\ agent_calls' = Append(agent_calls, AgentCall(agent, "process_request"))
         /\ UNCHANGED << notes, clock >>
  ELSE IF agent = "SCRIBE" /\ (\/ Says(user_input, << "take", " ", "note" >>)
                               \/ Says(user_input, << "create", " ", "note" >>))
    THEN /\ agent_calls' = Append(agent_calls, AgentCall("SCRIBE", "take_note"))
         /\ notes' = NotesAfterTake(NoteContentOf(user_input), now)
         /\ clock' = now
  ELSE IF agent = "SCRIBE" /\ Says(user_input, << "search" >>)
    THEN /\ agent_calls' = Append(agent_calls, AgentCall("SCRIBE", "search_notes"))
         /\ UNCHANGED << notes, clock >>
  ELSE IF agent = "SCRIBE" /\ Says(user_input, << "recent" >>)
    THEN /\ agent_calls' = Append(agent_calls,
                                  AgentCall("SCRIBE", "get_recent_notes"))
         /\ UNCHANGED << notes, clock >>
  ELSE UNCHANGED << agent_calls, notes, clock >>

\* the classify_intent node: Orchestrator.process_input classifies the
\* input, routes it to the agent and appends the entry to the history; the
\* node stores intent and agent_used, and _route_decision picks the route
_classify_intent_node ==
  /\ wnode = "classify_intent"
  /\ \E agent \in AgentNames, now \in clock..MaxClock :
       /\ route_to_agent(agent, agent_state.user_input, now)
       /\ conversation_history' = Append(conversation_history,
            [user_input |-> agent_state.user_input, agent_used |-> agent])
       /\ agent_state' = [agent_state EXCEPT !.intent = agent,
                                              !.agent_used = agent]
       /\ wnode' = RouteOf(agent)
  /\ UNCHANGED << notWorkflowVars, returned, workflow_runs, run_start >>

\* the nodes route_to_calendar, route_to_summarizer and route_to_archivist:
\* the agent's process_request, or its exception as the response
_route_to_agent_node(agent) ==
  /\ wnode = RouteOf(agent)
  /\ agent \in { "CALENDAR", "SUMMARIZER", "ARCHIVIST" }
  /\ agent_calls' = Append(agent_calls, AgentCall(agent, "process_request"))
  /\ \E ok \in BOOLEAN :
       agent_state' = [agent_state EXCEPT !.agent_response =
                         Response(IF ok THEN "agent" ELSE "agent error", 0)]
  /\ wnode' = "finalize"
  /\ UNCHANGED << notWorkflowVars, scribeVars, conversation_history,
                  workflow_runs, run_start >>

\* the node route_to_scribe
_route_to_scribe ==
  /\ wnode = "route_to_scribe"
  /\ LET user_input == agent_state.user_input IN
       IF Says(user_input, << "take", " ", "note" >>)
         THEN \E now \in clock..MaxClock :
                /\ notes' = NotesAfterTake(NoteContentOf(user_input), now)
                /\ clock' = now
                /\ agent_calls' = Append(agent_calls,
                                         AgentCall("SCRIBE", "take_note"))
                /\ agent_state' = [agent_state EXCEPT !.agent_response =
                                     Response("Note taken", 1)]
       ELSE IF Says(user_input, << "search" >>)
         THEN /\ agent_calls' = Append(agent_calls,
                                       AgentCall("SCRIBE", "search_notes"))
              /\ agent_state' = [agent_state EXCEPT !.agent_response =
                   LET hits == search_notes_of(QueryOf(user_input))
                   IN IF hits # << >> THEN Response("Found", Len(hits))
                      ELSE Response("No matching notes found.", 0)]
              /\ UNCHANGED << notes, clock >>
       ELSE /\ agent_calls' = Append(agent_calls,
                                     AgentCall("SCRIBE", "get_recent_notes"))
            /\ agent_state' = [agent_state EXCEPT !.agent_response =
                 IF notes # << >> THEN Response("Recent notes", Len(notes))
                 ELSE Response("No notes available.", 0)]
            /\ UNCHANGED << notes, clock >>
  /\ wnode' = "finalize"
  /\ UNCHANGED << notWorkflowVars, returned, conversation_history,
                  workflow_runs, run_start >>

\* the finalize node and the return of run
_finalize_node ==
  /\ wnode = "finalize"
  /\ agent_state' =
       IF agent_state.agent_response = NoResponse
       THEN [agent_state EXCEPT !.agent_response = Response("not sure", 0)]
       ELSE agent_state
  /\ wnode' = "idle"
  /\ UNCHANGED << notWorkflowVars, scribeVars, conversation_history,
                  agent_calls, workflow_runs, run_start >>

WorkflowInit ==
  /\ PipelineInit
  /\ calendar = {}
  /\ ExtractorIdle
  /\ SlotFinderIdle
  /\ ResolverIdle
  /\ ServerIdle
  /\ RunsIdle
  /\ ScribeIdle
  /\ WorkflowIdle

WorkflowNext ==
  \/ \E user_input \in UserInputs : workflow_run(user_input)
  \/ _classify_intent_node
  \/ \E agent \in AgentNames : _route_to_agent_node(agent)
  \/ _route_to_scribe
  \/ _finalize_node

WorkflowSpec == WorkflowInit /\ [][WorkflowNext]_vars

\* ------------------------------------------------------------ properties
\* the stage names in the order the pipeline is documented to run them
StageOrder ==
  << "Transcript Analyzer", "Research & Entity Extraction",
     "Calendar Context Fetch", "Related Meetings Finder", "Action Planner",
     "Decision Analyzer", "Risk Assessor", "Action Executor",
     "Summary Generator" >>

\* number of stages that have returned normally so far
Returned == IF node = "START" THEN 0 ELSE NodeIndex(node) - 1

IsPrefix(s, t) == Len(s) <= Len(t) /\ s = SubSeq(t, 1, Len(s))

\* C1: the stages start in the fixed linear order Analyze Transcript, Research
\* Entities, Fetch Calendar Context, Find Related Meetings, Plan Actions,
\* Assess Decisions, Assess Risks, Execute Actions, Generate Summary; a stage
\* starts only after the stage before it has returned, and a run that returns
\* has started all nine.
C1_LinearOrder ==
  LET starts == SelectSeq(events, LAMBDA e : e.type = "stage_start")
  IN /\ Len(starts) <= Len(StageOrder)
     /\ \A k \in 1..Len(starts) : starts[k].agent = StageOrder[k]
     /\ \A j \in 2..Len(events) :
          events[j].type = "stage_start" =>
            /\ events[j - 1].type = "stage_complete"
            /\ \E k \in 2..Len(StageOrder) :
                 /\ events[j].agent = StageOrder[k]
                 /\ events[j - 1].agent = StageOrder[k - 1]
     /\ pc = "done" => starts = [k \in 1..Len(StageOrder) |->
                                   Event("stage_start", StageOrder[k])]

C1_Witness == pc = "done" /\ Len(events) = 2 * Len(StageOrder)

\* the stages whose generator call is made outside any try block
PropagatingStages ==
  { "analyze_transcript", "find_related_meetings", "plan_actions",
    "generate_summary" }

\* the stage in which a recorded transport failure happened
StageOf(where) ==
  IF where = "_generate_next_steps" THEN "generate_summary" ELSE where

\* positions of the calendar writes made after the first n calls
WritesSince(n) ==
  { j \in (n + 1)..Len(calls) : calls[j].op \in {"insert", "update"} }

C3_TerminalEvent ==
  pc \in {"done", "halted"} =>
    LET terminal == { j \in 1..Len(events) :
                        events[j].type \in {"workflow_complete", "workflow_error"} }
    IN /\ terminal = {Len(events)}
       /\ Last(events).type = (IF pc = "done" THEN "workflow_complete"
                               ELSE "workflow_error")

\* C4: every stage that has returned normally emitted exactly two events
\* under its name: one stage_start and then one stage_complete, the second
\* right after the first.
C4_StartThenComplete ==
  \A k \in 1..Returned :
    LET a == AgentName[Nodes[k]]
        own == { j \in 1..Len(events) : events[j].agent = a }
    IN \E j \in 1..(Len(events) - 1) :
         /\ own = {j, j + 1}
         /\ events[j].type = "stage_start"
         /\ events[j + 1].type = "stage_complete"

C4_Witness ==
  /\ "analyze_transcript" \in unparsed
  /\ Returned = Len(Nodes)
  /\ Len(events) = 2 * Len(Nodes)

\* the stage n has emitted stage_complete and the graph has moved past it
CompletedAndPassed(n) ==
  /\ \E j \in 1..Len(events) : events[j] = Event("stage_complete", AgentName[n])
  /\ NodeIndex(node) > NodeIndex(n)

\* C5: a generator reply that cannot be parsed is absorbed: Analyze Transcript
\* stores the default analysis message, Find Related Meetings the empty list,
\* Plan Actions the empty list; the stage emits stage_complete and the graph
\* moves to the next stage.
C5_UnparseableAbsorbed ==
  /\ "analyze_transcript" \in unparsed =>
       /\ messages # << >>
       /\ messages[1] = Message("none", "Meeting Analysis: default")
       /\ CompletedAndPassed("analyze_transcript")
  /\ "find_related_meetings" \in unparsed =>
       /\ related_past_meetings = << >>
       /\ CompletedAndPassed("find_related_meetings")
  /\ "plan_actions" \in unparsed =>
       /\ planned_actions = << >>
       /\ CompletedAndPassed("plan_actions")

C5_Witness ==
  /\ "plan_actions" \in unparsed
  /\ pc = "running" /\ node = "decision_agent" /\ pos = "call"

\* C6: the result the caller receives always holds the partial data the run
\* produced: the planned actions and the execution results, also when a later
\* stage raised.
C6_PartialData ==
  pc \in {"done", "halted"} =>
    /\ result.planned_actions = planned_actions
    /\ result.execution_results = execution_results

\* steps a stage has left at each position (the two loops count down on i)
StageSteps == 2 * MaxActions + 5

PosRank ==
  CASE pos = "entry" -> StageSteps - 1
    [] pos = "call" -> StageSteps - 2
    [] pos = "phase1" -> 2 * MaxActions + 2 - i
    [] pos = "phase2" -> MaxActions + 2 - i

\* an upper bound on the steps the run can still take
Remaining ==
  CASE pc = "idle" -> (Len(Nodes) + 1) * StageSteps
    [] pc \in {"done", "halted"} -> 0
    [] OTHER -> (Len(Nodes) - Returned) * StageSteps + PosRank

\* the run stopped because a call raised: a generator call of a propagating
\* stage, or the calendar listing of Fetch Calendar Context
HaltedByRaise ==
  \/ node \in PropagatingStages /\ \E f \in failures : f.where = node
  \/ node = "fetch_calendar_context" /\ calls # << >>
       /\ Last(calls) = Call("list", 0, FALSE)

PendingApproval == << ExecutionResult("warning", "pending_approval", None) >>

\* C8: with auto_execute false, Execute Actions makes no calendar call, leaves
\* planned_actions unchanged, and returns with exactly one result, of status
\* warning.
C8_NoAutoExecute ==
  [][ (pc = "running" /\ node = "execute_actions" /\ ~auto_execute) =>
        /\ calls' = calls
        /\ calendar' = calendar
        /\ planned_actions' = planned_actions
        /\ executed' = executed
        /\ node' # node => /\ execution_results' = PendingApproval
                           /\ node' = "generate_summary" ]_vars

C8_Witness ==
  /\ ~auto_execute
  /\ node = "generate_summary"
  /\ planned_actions # << >>
  /\ execution_results = PendingApproval

\* C9: for the plan [ADD_NOTES on an event that does not exist, valid
\* CREATE_EVENT] with auto_execute true and no other failure, the execution
\* results are two entries: status error, then status success.
C9_ErrorThenSuccess ==
  ( /\ pc = "done" /\ auto_execute /\ faults = 0
    /\ Len(planned_actions) = 2
    /\ planned_actions[1].action_type = "add_notes"
    /\ planned_actions[1].calendar_event_id = Some(99)
    /\ planned_actions[2].action_type = "create_event" )
  => /\ Len(execution_results) = 2
     /\ execution_results[1].status = "error"
     /\ execution_results[2].status = "success"

\* the indices of the planned actions whose type is in T, in input order
IndicesOf(T) ==
  SelectSeq([k \in 1..Len(planned_actions) |-> k],
            LAMBDA k : planned_actions[k].action_type \in T)

\* the order of execution the two phases are documented to follow
TwoPhaseOrder ==
  IndicesOf({"find_available_slot", "add_notes", "update_event"})
    \o IndicesOf({"create_event"})

C11_OneResultPerAction ==
  /\ [](auto_execute /\ node \in {"execute_actions", "generate_summary", "END"} =>
          /\ \A k \in 1..Len(planned_actions) :
               Cardinality({ x \in 1..Len(executed) : executed[x] = k }) <= 1
          /\ Len(results) = Len(executed)
          /\ node # "execute_actions" =>
               /\ \A k \in 1..Len(planned_actions) :
                    \E x \in 1..Len(executed) : executed[x] = k
               /\ Len(execution_results) = Len(planned_actions))
  /\ [][node = "execute_actions" => planned_actions' = planned_actions]_vars

C11_Witness ==
  /\ pc = "done" /\ auto_execute
  /\ Len(planned_actions) = 2
  /\ Len(execution_results) = 2
  /\ execution_results[1].status = "error"
  /\ execution_results[2].status = "success"

\* whether position k of t lies inside a string literal, reading t from its start
RECURSIVE InsideString(_, _, _, _)
InsideString(t, k, j, inside) ==
  IF j >= k THEN inside
  ELSE IF inside /\ t[j] = Backslash THEN InsideString(t, k, j + 2, inside)
  ELSE IF t[j] = Quote THEN InsideString(t, k, j + 1, ~inside)
  ELSE InsideString(t, k, j + 1, inside)

\* t holds no marker, and its first bracket outside a string literal starts a
\* JSON array or object
StartsStructure(t) ==
  /\ \A k \in 1..Len(t) : t[k] \in BodyChars
  /\ \E k \in 1..Len(t) :
       /\ t[k] \in {"[", "{"}
       /\ ~InsideString(t, k, 1, FALSE)
       /\ \A j \in 1..(k - 1) :
            t[j] \in {"[", "]", "{", "}"} => InsideString(t, j, 1, FALSE)
       /\ ValueEnd(t, k) # 0

\* C12: for a text whose first bracket outside a string literal starts a JSON
\* array or object, the extractor returns valid JSON: brackets inside string
\* literals do not change the outcome.
C12_ExtractsValidJson ==
  (extracted # None /\ StartsStructure(text)) => IsJson(extracted[1])

\* the text without its thinking spans
RECURSIVE WithoutThinking(_, _)
WithoutThinking(t, k) ==
  IF k > Len(t) THEN << >>
  ELSE IF t[k] = ThinkOpen /\ IndexFrom(t, ThinkClose, k + 1) # 0
    THEN WithoutThinking(t, IndexFrom(t, ThinkClose, k + 1) + 1)
  ELSE << t[k] >> \o WithoutThinking(t, k + 1)

\* no fence, and no opening bracket with a closing bracket of its kind after it
NoBlockNoBrackets(t) ==
  /\ \A k \in 1..Len(t) : t[k] \notin { Fence, JsonFence }
  /\ \A k \in 1..Len(t) : \A j \in (k + 1)..Len(t) :
       ~(t[k] = "[" /\ t[j] = "]") /\ ~(t[k] = "{" /\ t[j] = "}")

\* C13 as stated: a text without fenced block and without balanced bracket
\* structure is returned unchanged, thinking spans included.
C13_ReturnsOriginal ==
  (extracted # None /\ NoBlockNoBrackets(text)) => extracted[1] = text

\* C13 (amended): a text without fenced block and without an opening bracket
\* followed by a closing bracket of its kind is returned with its thinking
\* spans removed and otherwise unchanged.
C13_ReturnsTextWithoutThinking ==
  (extracted # None /\ NoBlockNoBrackets(text)) =>
    extracted[1] = WithoutThinking(text, 1)

C13_Witness ==
  /\ extracted # None
  /\ NoBlockNoBrackets(text)
  /\ text # << >>
  /\ text[1] = ThinkOpen
  /\ Len(extracted[1]) = MaxText
  /\ extracted[1] # text

\* the events the slot finder fetched for its call
FetchedEvents == fetch_events(slot_events, slot_args.days_ahead, 0)

Overlaps(slot, e) == slot.start < e.end /\ e.start < slot.end

\* C14: no returned slot overlaps a fetched event, whatever day the event
\* starts on.
C14_NoOverlap ==
  slots_found # None =>
    \A k \in 1..Len(slots_found[1]) : \A e \in FetchedEvents :
      ~Overlaps(slots_found[1][k], e)

\* every slot the scan would collect if it never stopped early
AllSlots ==
  find_available_slots(slot_events, slot_args.duration_minutes,
                       slot_args.days_ahead,
                       slot_args.days_ahead * (Cardinality(slot_events) + 1) + 1)

\* C15: for every max_slots >= 0 at most max_slots slots are returned, and
\* the scan stops once it has them: the result is the first max_slots slots
\* of the full scan.
C15_AtMostMaxSlots ==
  slots_found # None =>
    /\ Len(slots_found[1]) <= slot_args.max_slots
    /\ IsPrefix(slots_found[1], AllSlots)
    /\ Len(slots_found[1]) < slot_args.max_slots => slots_found[1] = AllSlots

\* day d is a working day inside the horizon that no fetched event touches
FreeDay(d) ==
  /\ d \in 0..(slot_args.days_ahead - 1)
  /\ (TodayWeekday + d) % 7 < 5
  /\ \A e \in FetchedEvents :
       e.end <= d * MinutesPerDay \/ e.start >= (d + 1) * MinutesPerDay

\* the scan returned before it reached day d
StoppedBefore(d) ==
  /\ slots_found[1] # << >>
  /\ Len(slots_found[1]) >= slot_args.max_slots
  /\ \A k \in 1..Len(slots_found[1]) :
       slots_found[1][k].start < d * MinutesPerDay

\* C16: a scanned day without events whose working window is at least
\* duration_minutes long yields exactly one slot, starting at the start of
\* the working hours.
C16_FreeDayOneSlot ==
  slots_found # None =>
    \A d \in 0..(slot_args.days_ahead - 1) :
      (FreeDay(d) /\ WorkEnd - WorkStart >= slot_args.duration_minutes
         /\ ~StoppedBefore(d)) =>
        LET on_day == { k \in 1..Len(slots_found[1]) :
                          slots_found[1][k].start \div MinutesPerDay = d }
        IN \E k \in on_day :
             /\ on_day = {k}
             /\ slots_found[1][k] =
                  TimeSlot(d * MinutesPerDay + WorkStart, slot_args.duration_minutes)

C16_Witness ==
  /\ slots_found # None
  /\ slot_args.duration_minutes = WorkEnd - WorkStart
  /\ slot_args.days_ahead = 2
  /\ slot_events = { CalendarEvent(1, 600, 660) }
  /\ slots_found[1] =
       << TimeSlot(MinutesPerDay + WorkStart, WorkEnd - WorkStart) >>


\* the name as the resolver compares it
Compared == Strip(Lower(name))

\* the attendees of the table with a primary name or an alias equal to the name
ExactOwners ==
  { k \in 1..Len(mapping) :
      \/ Compared = Lower(mapping[k].primary_name)
      \/ \E x \in 1..Len(mapping[k].aliases) :
           Compared = Lower(mapping[k].aliases[x]) }

\* the attendees of the table with an alias at or above the threshold
SimilarOwners ==
  { k \in 1..Len(mapping) :
      \E x \in 1..Len(mapping[k].aliases) :
        Similar(Compared, Lower(mapping[k].aliases[x])) }

\* C17: a name equal, whatever its case, to a primary name or an alias of an
\* attendee resolves to an attendee it is equal to, even when an attendee
\* listed earlier has an alias at or above the threshold
C17_ExactWins ==
  (matched # None /\ name # << >> /\ ExactOwners # {}) =>
    /\ matched[1].kind = "record"
    /\ \E k \in ExactOwners : matched[1] = Found(mapping[k])

\* a name equal to an alias of the second attendee, and similar to an alias of
\* the first, has resolved to the second
C17_Witness ==
  /\ matched # None
  /\ name # << >>
  /\ Len(mapping) = 2
  /\ 2 \in ExactOwners
  /\ 1 \in SimilarOwners
  /\ 1 \notin ExactOwners
  /\ matched[1] = Found(mapping[2])

\* the best similarity of attendee k's aliases is at least that of attendee j's
BestAtLeast(k, j) ==
  \A y \in 1..Len(mapping[j].aliases) :
    \E x \in 1..Len(mapping[k].aliases) :
      RatioNum(Compared, Lower(mapping[k].aliases[x]))
          * RatioDen(Compared, Lower(mapping[j].aliases[y]))
        >= RatioNum(Compared, Lower(mapping[j].aliases[y]))
          * RatioDen(Compared, Lower(mapping[k].aliases[x]))

\* C18: with no equal name in the table and several aliases at or above the
\* threshold, the attendee returned owns the alias of the highest similarity
C18_HighestScoreWins ==
  (matched # None /\ name # << >> /\ ExactOwners = {} /\ SimilarOwners # {}) =>
    \E k \in SimilarOwners :
      /\ matched[1] = Found(mapping[k])
      /\ \A j \in SimilarOwners : BestAtLeast(k, j)

\* the address built from the first and the last token of the compared name
SyntheticEmail ==
  LET parts == Split(Compared, << >>)
  IN [local |-> IF Len(parts) >= 2
                THEN parts[1] \o << "." >> \o parts[Len(parts)]
                ELSE parts[1],
      domain |-> DefaultDomain]

\* C19: resolving any name, the empty and the blank ones included, returns a
\* record with an address and does not raise; a name matching nobody gets the
\* address built from its first and last token and the default domain
C19_NeverFails ==
  matched # None =>
    /\ matched[1].kind = "record"
    /\ (ExactOwners = {} /\ SimilarOwners = {}) =>
         matched[1].email = SyntheticEmail


\* C20: broadcast_workflow_event never raises and always returns, whatever
\* the registered queues hold (none registered, some at capacity) and
\* whether or not any client ever reads
C20_PublishReturns ==
  /\ [](\A t \in Broadcasters : bpc[t] # "raised")
  /\ \A t \in Broadcasters : (bpc[t] = "lock") ~> (bpc[t] = "returned")

\* a broadcast has returned after finding a queue at capacity, which it removed
C20_Witness ==
  \E t \in Broadcasters :
    /\ bpc[t] = "returned"
    /\ dead_queues[t] # << >>
    /\ Len(workflow_event_queues) < MaxClients


\* the queues a broadcasting thread found at capacity
FoundFull(t) ==
  { workflow_event_queues[dead_queues[t][k]] : k \in 1..Len(dead_queues[t]) }

\* the broadcast events client c has got: those yielded, then those queued
Got(c) ==
  SelectSeq(sent[c], LAMBDA e : e.type = "stage_start") \o client_queue[c]

Occurrences(list, e) == Cardinality({ k \in 1..Len(list) : list[k] = e })

\* C21: a broadcast that finds a queue at capacity does not enqueue the event
\* there and marks that queue; when it returns, exactly the queues it found at
\* capacity have left the list, and every other registered queue has got the
\* event and is still in the list, in the same order
C21_FullQueueDropped ==
  [][\A t \in Broadcasters :
       /\ (bpc[t] = "put" /\ bi'[t] = bi[t] + 1) =>
            LET c == workflow_event_queues[bi[t]]
            IN IF Len(client_queue[c]) >= QueueMaxsize
                 THEN /\ client_queue'[c] = client_queue[c]
                      /\ dead_queues'[t] = Append(dead_queues[t], bi[t])
                 ELSE /\ client_queue'[c] =
                           Append(client_queue[c], event_data[t])
                      /\ dead_queues'[t] = dead_queues[t]
       /\ (bpc[t] = "put" /\ bpc'[t] = "returned") =>
            /\ workflow_event_queues' =
                 SelectSeq(workflow_event_queues,
                           LAMBDA q : q \notin FoundFull(t))
            /\ \A k \in 1..Len(workflow_event_queues) :
                 LET c == workflow_event_queues[k]
                 IN c \notin FoundFull(t) =>
                      Occurrences(Got(c), event_data[t]) = 1
     ]_vars

\* a broadcast found the first of two registered queues at capacity and has
\* returned: the second got the event and is the only one left in the list
C21_Witness ==
  \E t \in Broadcasters :
    /\ bpc[t] = "returned"
    /\ workflow_event_lock = None
    /\ dead_queues[t] = << 1 >>
    /\ Len(workflow_event_queues) = 1
    /\ LET c == workflow_event_queues[1]
       IN /\ Occurrences(Got(c), event_data[t]) = 1
          /\ \E b \in Clients :
               /\ b # c
               /\ cstate[b] = "streaming"
               /\ due[b] # << >>
               /\ due[b][Len(due[b])] = event_data[t]
               /\ Occurrences(Got(b), event_data[t]) = 0

\* the broadcast in progress, if any, has not reached or has skipped client c
Pending(c) ==
  \E t \in Broadcasters :
    /\ bpc[t] = "put"
    /\ due[c][Len(due[c])] = event_data[t]
    /\ \E k \in 1..Len(workflow_event_queues) :
         /\ workflow_event_queues[k] = c
         /\ (k >= bi[t] \/ \E d \in 1..Len(dead_queues[t]) : dead_queues[t][d] = k)

IndexIn(list, e) ==
  IF \E k \in 1..Len(list) : list[k] = e
    THEN CHOOSE k \in 1..Len(list) : list[k] = e
    ELSE 0

\* C23: registration, removal and the loop of a broadcast exclude each other;
\* no event is twice on a queue, a returning broadcast has put its event
\* exactly once on every registered queue it did not find at capacity, and two
\* clients get the events they have in common in the same order
C23_MutualExclusion ==
  /\ [](/\ \A t, u \in Broadcasters :
             (bpc[t] = "put" /\ bpc[u] = "put") => t = u
        /\ \A t \in Broadcasters :
             bpc[t] = "put" <=> workflow_event_lock = Some(t)
        /\ \A c \in Clients : \A k \in 1..Len(Got(c)) :
             Occurrences(Got(c), Got(c)[k]) = 1
        /\ \A b, c \in Clients :
             \A j, k \in 1..Len(Got(b)) :
               (j < k /\ IndexIn(Got(c), Got(b)[j]) # 0
                      /\ IndexIn(Got(c), Got(b)[k]) # 0) =>
                 IndexIn(Got(c), Got(b)[j]) < IndexIn(Got(c), Got(b)[k]))
  /\ [][/\ (\E c \in Clients : cstate'[c] # cstate[c]
                               /\ workflow_event_queues' # workflow_event_queues)
             => (workflow_event_lock = None /\ workflow_event_lock' = None)
        /\ \A t \in Broadcasters :
             (bpc[t] = "put" /\ bpc'[t] = "returned") =>
               \A k \in 1..Len(workflow_event_queues) :
                 LET c == workflow_event_queues[k]
                 IN Occurrences(Got(c), event_data[t]) =
                      (IF c \in FoundFull(t) THEN 0 ELSE 1)
       ]_vars

\* one thread waits for the lock while the other is in the middle of its loop
\* over two registered queues, both of which already hold common events
C23_Witness ==
  \E t, u \in Broadcasters :
    /\ bpc[t] = "lock"
    /\ workflow_event_lock = Some(u)
    /\ Len(workflow_event_queues) = MaxClients
    /\ bi[u] = MaxClients
    /\ \A c \in Clients : Len(Got(c)) >= 1

\* C24: a disconnecting client leaves the list and nothing else does; when it
\* is not in the list (a broadcast removed it) the list stays as it is; once
\* a client is not registered no broadcast puts anything on its queue
C24_Unsubscribe ==
  /\ [](\A c \in Clients : cstate[c] = "gone" => ~Registered(c))
  /\ [][\A c \in Clients :
          /\ (cstate[c] # "gone" /\ cstate'[c] = "gone") =>
               /\ workflow_event_queues' =
                    SelectSeq(workflow_event_queues, LAMBDA q : q # c)
               /\ ~Registered(c) =>
                    workflow_event_queues' = workflow_event_queues
          /\ ~Registered(c) => Len(client_queue'[c]) <= Len(client_queue[c])
       ]_vars

\* a client that a broadcast had removed has disconnected, and the other
\* client is still registered
C24_Witness ==
  \E c \in Clients :
    /\ cstate[c] = "gone"
    /\ Len(due[c]) = Len(Got(c)) + 1
    /\ workflow_event_lock = None
    /\ \E b \in Clients : b # c /\ Registered(b)

\* C25: the first thing a client yields is the connection message; a read
\* that times out happens on an empty queue, yields a heartbeat, leaves every
\* queue as it is and the client reading; no heartbeat or connection message
\* is ever in a queue, and no queue exceeds its capacity
C25_Heartbeat ==
  /\ [](\A c \in Clients :
          /\ sent[c] # << >> => sent[c][1] = Connected
          /\ \A k \in 2..Len(sent[c]) : sent[c][k] # Connected
          /\ \A k \in 1..Len(client_queue[c]) :
               client_queue[c][k].type = "stage_start"
          /\ Len(client_queue[c]) <= QueueMaxsize)
  /\ [][\A c \in Clients :
          (Len(sent'[c]) = Len(sent[c]) + 1
             /\ sent'[c][Len(sent'[c])] = Heartbeat) =>
            /\ cstate[c] = "streaming"
            /\ cstate'[c] = "streaming"
            /\ client_queue[c] = << >>
            /\ client_queue' = client_queue
            /\ workflow_event_queues' = workflow_event_queues
       ]_vars

\* a client has yielded a heartbeat and, reading on, a broadcast event
C25_Witness ==
  \E c \in Clients : \E k \in 2..Len(sent[c]) :
    /\ sent[c][k] = Heartbeat
    /\ k < Len(sent[c])
    /\ sent[c][k + 1].type = "stage_start"


\* C26: an event of a run is delivered only to the callback that run was
\* started with; a run started without a callback has no event delivered
C26_OwnCallbackOnly ==
  \A k \in 1..Len(delivered) :
    Some(delivered[k].callback[1]) = run_callback[delivered[k].run]

\* C27: the k-th note of a store that started empty has id k, and take_note
\* returns the note it stored: the given content and tags, the time of the
\* call, and the next id
C27_IdsCountUp ==
  /\ \A k \in 1..Len(notes) : notes[k].id = k
  /\ (returned # None /\ returned[1].op = "take_note") =>
       /\ returned[1].value = notes[Len(notes)]
       /\ returned[1].value.id = Len(notes)
       /\ returned[1].value.content = returned[1].content
       /\ returned[1].value.tags =
            (IF returned[1].tags = None THEN << >> ELSE returned[1].tags[1])
       /\ returned[1].value.timestamp = clock

\* the store is full and the last call was the take_note that filled it
C27_Witness ==
  /\ Len(notes) = MaxNotes
  /\ returned # None
  /\ returned[1].op = "take_note"
  /\ returned[1].value.id = MaxNotes

\* the notes whose content holds the query, whatever the case of the letters
HoldingQuery(q) ==
  SelectSeq(notes, LAMBDA n :
    \E k \in 1..(Len(n.content) - Len(q) + 1) :
      \A j \in 1..Len(q) : LowerChar(n.content[k + j - 1]) = LowerChar(q[j]))

\* the notes whose tag list holds the tag
Tagged(tag) ==
  SelectSeq(notes, LAMBDA n : tag \in { n.tags[k] : k \in 1..Len(n.tags) })

\* the queries leave the store as it is
QueriesReadOnly ==
  [][(returned' # None /\ returned'[1].op # "take_note") => notes' = notes]_vars

\* C28, as stated: search_notes returns the notes holding the query and
\* get_notes(tag) the notes tagged with tag, for every tag
C28_ExactFilters ==
  returned # None =>
    /\ returned[1].op = "search_notes" =>
         returned[1].value = HoldingQuery(returned[1].query)
    /\ (returned[1].op = "get_notes" /\ returned[1].tag # None) =>
         returned[1].value = Tagged(returned[1].tag[1])

\* C28, amended: search_notes returns the notes holding the query; get_notes
\* returns the notes tagged with tag when the tag is not empty, and all the
\* notes when it is empty or absent; neither changes the store
C28_ExactFiltersNonEmptyTag ==
  /\ [](returned # None =>
          /\ returned[1].op = "search_notes" =>
               returned[1].value = HoldingQuery(returned[1].query)
          /\ returned[1].op = "get_notes" =>
               returned[1].value =
                 (IF returned[1].tag # None /\ returned[1].tag[1] # ""
                    THEN Tagged(returned[1].tag[1])
                    ELSE notes))
  /\ QueriesReadOnly

\* a search found a note by a query in the other case and left another out
C28_Witness ==
  /\ returned # None
  /\ returned[1].op = "search_notes"
  /\ returned[1].query = << "a" >>
  /\ returned[1].value # << >>
  /\ Len(returned[1].value) < Len(notes)
  /\ \A k \in 1..Len(returned[1].value) :
       returned[1].value[k].content = << "A", "b" >>

\* C29: get_recent_notes(limit) returns min(limit, n) of the n notes, none
\* twice, those left out being no newer than any returned, the newest first,
\* and leaves the store as it is
C29_RecentNotes ==
  /\ [](returned # None /\ returned[1].op = "get_recent_notes" =>
          LET v == returned[1].value
              limit == returned[1].limit
              ids == { v[k].id : k \in 1..Len(v) }
          IN /\ Len(v) = (IF limit < Len(notes) THEN limit ELSE Len(notes))
             /\ \A k \in 1..Len(v) : v[k] = notes[v[k].id]
             /\ Cardinality(ids) = Len(v)
             /\ \A k \in 1..(Len(v) - 1) : v[k].timestamp >= v[k + 1].timestamp
             /\ \A k \in 1..Len(v) : \A j \in 1..Len(notes) :
                  j \notin ids => notes[j].timestamp <= v[k].timestamp)
  /\ [][(returned' # None /\ returned'[1].op = "get_recent_notes")
          => notes' = notes]_vars

\* the newest note was not the last one taken, and a limit below the number
\* of notes returned it first
C29_Witness ==
  /\ returned # None
  /\ returned[1].op = "get_recent_notes"
  /\ Len(notes) = MaxNotes
  /\ returned[1].limit = MaxNotes - 1
  /\ notes[1].timestamp > notes[MaxNotes].timestamp
  /\ returned[1].value[1] = notes[1]


\* the slots the slot finder returns for the given duration that start on
\* the given day
SlotsOnDate(date, dur) ==
  LET found == find_available_slots(calendar, dur, DaysAhead, DateSlotMax)
  IN { sl \in { found[k] : k \in 1..Len(found) } :
         sl.start \div MinutesPerDay = date }

\* C30: a create_event action with a target date that gets its event created
\* has queried the slot finder, and the event is the earliest returned slot
\* that starts on the target date or, when none does, starts at 14:00 on the
\* target date and lasts duration_minutes
C30_TargetDateSlot ==
  [][(/\ node = "execute_actions" /\ pos = "phase2"
      /\ i <= Len(planned_actions)
      /\ planned_actions[i].action_type = "create_event"
      /\ planned_actions[i].event_date # None
      /\ calendar' # calendar) =>
       LET action == planned_actions[i]
           date == action.event_date[1]
           on_date == SlotsOnDate(date, action.duration_minutes)
       IN /\ \E k \in 1..Len(calls') :
               k > Len(calls) /\ calls'[k] = Call("list", i, TRUE)
          /\ \E e \in calendar' \ calendar :
               /\ calendar' = calendar \cup { e }
               /\ IF on_date # {}
                    THEN /\ \E sl \in on_date : e.start = sl.start /\ e.end = sl.end
                         /\ \A sl \in on_date : e.start <= sl.start
                    ELSE /\ e.start = date * MinutesPerDay + DefaultHour
                         /\ e.end = e.start + action.duration_minutes
     ]_vars

\* with today fully booked, a run has created an event for tomorrow in the
\* first free slot of that day and one for today at 14:00
C30_Witness ==
  /\ pc = "done"
  /\ \E e \in calendar :
       /\ e.start = MinutesPerDay + WorkStart
       /\ e.end = e.start + DefaultDuration
  /\ \E e \in calendar :
       /\ e.start = DefaultHour
       /\ e.end = DefaultHour + DefaultDuration
  /\ \E e \in calendar : e.start = WorkStart /\ e.end = WorkEnd


\* C38: every slot the slot finder returns lies inside the working window
\* of the day it starts on: it starts at or after the start of the working
\* hours and ends at or before their end, whatever events the day has.
C38_InsideWorkingWindow ==
  slots_found # None =>
    \A k \in 1..Len(slots_found[1]) :
      LET slot == slots_found[1][k]
          day == slot.start \div MinutesPerDay
      IN /\ day * MinutesPerDay + WorkStart <= slot.start
         /\ slot.end <= day * MinutesPerDay + WorkEnd

\* the remote calls the step under way makes
NewCalls == { calls'[k] : k \in (Len(calls) + 1)..Len(calls') }

\* C31: a create_event action without a target date takes the first slot of
\* available_slots, which is its earliest, and asks the slot finder nothing
\* when that list is not empty; otherwise it asks the slot finder for one
\* slot, and when the answer is empty it records an error result, makes no
\* create call and the loop moves on to the next action
C31_NoDateResolution ==
  [][(/\ node = "execute_actions" /\ pos = "phase2"
      /\ i <= Len(planned_actions)
      /\ planned_actions[i].action_type = "create_event"
      /\ planned_actions[i].event_date = None) =>
       LET action == planned_actions[i]
           fresh == find_available_slots(calendar, action.duration_minutes,
                                         DaysAhead, FreshSlotMax)
           created == calendar' \ calendar
       IN /\ pos' = "phase2" /\ i' = i + 1
          /\ Len(results') = Len(results) + 1
          /\ IF available_slots # << >>
               THEN /\ \A c \in NewCalls : c.op # "list"
                    /\ \E c \in NewCalls : c.op = "insert" /\ c.idx = i
                    /\ \A k \in 1..Len(available_slots) :
                         available_slots[1].start <= available_slots[k].start
                    /\ \A e \in created :
                         /\ e.start = available_slots[1].start
                         /\ e.end = available_slots[1].end
               ELSE /\ \E c \in NewCalls : c.op = "list" /\ c.idx = i
                    /\ Len(fresh) <= 1
                    /\ Call("list", i, TRUE) \in NewCalls =>
                         IF fresh = << >>
                           THEN /\ results' = Append(results,
                                      ExecutionResult("error", "create_event", None))
                                /\ \A c \in NewCalls : c.op # "insert"
                                /\ calendar' = calendar
                           ELSE /\ \E c \in NewCalls : c.op = "insert" /\ c.idx = i
                                /\ \A e \in created :
                                     /\ e.start = fresh[1].start
                                     /\ e.end = fresh[1].end
     ]_vars

\* a meeting longer than the working day found the list empty, asked the
\* slot finder, got nothing and was skipped with an error result; the next
\* action asked again and got its event created in the slot returned
C31_Witness ==
  /\ node = "execute_actions" /\ pos = "phase2" /\ i = 3
  /\ planned_actions[1] =
       MeetingAction("create_event", None, None, None, LongDuration)
  /\ planned_actions[2] =
       MeetingAction("create_event", None, None, None, DefaultDuration)
  /\ available_slots = << >>
  /\ results = << ExecutionResult("error", "create_event", None),
                  ExecutionResult("success", "create_event",
                                  Some(NewEventId({}))) >>
  /\ calls = << Call("list", 1, TRUE), Call("list", 2, TRUE),
                Call("insert", 2, TRUE) >>
  /\ calendar = { CalendarEvent(NewEventId({}), WorkStart,
                                WorkStart + DefaultDuration) }

\* the events created since execute_actions was entered
CreatedEvents == { e \in calendar : e.id >= NewEventId({}) }

\* C36: no two events created in one run of execute_actions have the same
\* or overlapping intervals, the calendar listing every created event to
\* the slot queries that follow.
C36_CreatedDisjoint ==
  \A a \in CreatedEvents : \A b \in CreatedEvents :
    a # b => ~Overlaps(a, b)

\* C37: the interval of every event execute_actions creates is as long as
\* the duration_minutes of the create_event action it is created for,
\* wherever its slot came from.
C37_OwnDuration ==
  [][(/\ node = "execute_actions" /\ pos = "phase2"
      /\ i <= Len(planned_actions)
      /\ planned_actions[i].action_type = "create_event"
      /\ calendar' # calendar) =>
       \A e \in calendar' \ calendar :
         e.end - e.start = planned_actions[i].duration_minutes
     ]_vars

\* the free stretches of the working hours of the given day that the scan
\* over the whole horizon finds when it never stops early
FreeGapsOnDate(date, dur) ==
  LET found == find_available_slots(calendar, dur, DaysAhead,
                 DaysAhead * (Cardinality(calendar) + 1) + 1)
  IN { sl \in { found[k] : k \in 1..Len(found) } :
         sl.start \div MinutesPerDay = date }

\* C39: a create_event action whose target date is a working day inside the
\* search horizon with a free stretch of at least duration_minutes gets its
\* event at the earliest such stretch of that date, however many slots the
\* days before it have.
C39_TargetDateGap ==
  [][(/\ node = "execute_actions" /\ pos = "phase2"
      /\ i <= Len(planned_actions)
      /\ planned_actions[i].action_type = "create_event"
      /\ planned_actions[i].event_date # None
      /\ planned_actions[i].event_date[1] \in 0..(DaysAhead - 1)
      /\ (TodayWeekday + planned_actions[i].event_date[1]) % 7 < 5
      /\ FreeGapsOnDate(planned_actions[i].event_date[1],
                        planned_actions[i].duration_minutes) # {}
      /\ calendar' # calendar) =>
       LET gaps == FreeGapsOnDate(planned_actions[i].event_date[1],
                                  planned_actions[i].duration_minutes)
       IN \A e \in calendar' \ calendar :
            /\ \E sl \in gaps : e.start = sl.start /\ e.end = sl.end
            /\ \A sl \in gaps : e.start <= sl.start
     ]_vars

\* t is one well-formed JSON object and nothing else: no fence, no thinking
\* span, no text around it
IsObjectText(t) ==
  /\ \A k \in 1..Len(t) : t[k] \in BodyChars
  /\ IsJson(t)
  /\ t[1] = "{"

\* C32: when the reply plan_actions parses is one well-formed JSON object
\* describing an action, with or without an array among its fields,
\* planned_actions becomes the one-element list of that action.
C32_BareObjectWrapped ==
  (parsed # None /\ parsed[1].by = "plan_actions" /\ IsObjectText(text)) =>
    parsed[1].value = << text >>

\* C35: a text that is one well-formed JSON object and nothing else comes
\* back from the extractor whole, arrays among its fields or not, and the
\* analysis analyze_transcript stores for such a reply is that object, with
\* its own meeting_title and summary.
C35_ObjectReturnedWhole ==
  (extracted # None /\ IsObjectText(text)) =>
    /\ extracted[1] = text
    /\ (parsed # None /\ parsed[1].by = "analyze_transcript") =>
         parsed[1].value = [meeting_title |-> "own", source |-> text]

\* the contents analyze_transcript gives its message
AnalysisContents ==
  { "Meeting Analysis: own", "Meeting Analysis: from list",
    "Meeting Analysis: default" }

\* C34: the analysis find_related_meetings puts in its prompt is the content
\* of the message analyze_transcript appended, the first of the run, and not
\* that of a stage that ran in between.
C34_PromptHoldsAnalysis ==
  prompt_analysis # "" =>
    /\ prompt_analysis \in AnalysisContents
    /\ messages # << >>
    /\ prompt_analysis = messages[1].content

AdvisoryStages == { "decision_agent", "risk_assessment_agent" }

\* C33: decision_agent and risk_assessment_agent leave planned_actions,
\* execution_results, calendar_events and related_past_meetings as they are
\* and only append to messages; whatever they produce and however they fail
\* the run goes on, and execute_actions attempts exactly the actions
\* plan_actions wrote, each once.
C33_AdvisoryOnly ==
  /\ [][(node \in AdvisoryStages) =>
          (/\ planned_actions' = planned_actions
           /\ execution_results' = execution_results
           /\ calendar_events' = calendar_events
           /\ related_past_meetings' = related_past_meetings
           /\ IsPrefix(messages, messages')
           /\ pc' = "running"
           /\ node' \in AdvisoryStages \cup { "execute_actions" })]_vars
  /\ [][node = "execute_actions" => planned_actions' = planned_actions]_vars
  /\ []((auto_execute /\ node \in { "generate_summary", "END" }) =>
          \A k \in 1..Len(planned_actions) :
            Cardinality({ x \in 1..Len(executed) : executed[x] = k }) = 1)

\* the generator call of the decision stage failed, and the run still
\* attempted both planned actions
C33_Witness ==
  /\ pc = "done" /\ auto_execute
  /\ \E f \in failures : f.where = "decision_agent"
  /\ \E k \in 1..Len(messages) :
       messages[k] = Message("decision_agent",
                             "Decision agent completed with note: transport")
  /\ Len(planned_actions) = 2
  /\ Len(executed) = 2
  /\ executed[1] # executed[2]

\* a call of run has returned
RunReturned == wnode = "idle" /\ workflow_runs > 0

\* C40: a call of MultiAgentWorkflow.run makes exactly one agent call for
\* an input classified as one of the four agents; for an input classified
\* as SCRIBE that says take note it adds exactly one note; and it adds
\* exactly one entry to the conversation history.
C40_OneInvocationPerRun ==
  RunReturned =>
    /\ agent_state.intent \in { "CALENDAR", "SUMMARIZER", "ARCHIVIST", "SCRIBE" } =>
         Len(agent_calls) - run_start.calls = 1
    /\ (/\ agent_state.intent = "SCRIBE"
        /\ Says(agent_state.user_input, << "take", " ", "note" >>)) =>
         Len(notes) - run_start.notes = 1
    /\ Len(conversation_history) - run_start.history = 1

====
